---- MODULE Spec2Model ----
(***************************************************************************)
(* A model of rust-cdp: the message envelope (cdp/src/lib.rs,              *)
(* src/json.rs), the derived name -> variant dispatch                      *)
(* (cdp-derive/src/lib.rs) and the schema compiler (cdp/src/generate.rs).  *)
(*                                                                         *)
(* Three specifications share the variables below:                        *)
(*   SpecParse    - CdpIncoming::parse / JsonCdpIncoming::parse            *)
(*   SpecDispatch - #[derive(DeserializeCdpCommand / DeserializeCdpEvent)] *)
(*                  and the per-method impl emitted by generate_method     *)
(*   SpecGen      - generate_uses_lifetime_set and the type emitter        *)
(* Each specification leaves the variables of the other two at their idle  *)
(* value.                                                                  *)
(***************************************************************************)
EXTENDS Integers, Sequences, FiniteSets, TLC

VARIABLES
    \* -- message envelope --
    payload,      \* what the deserializer handed to parse yields
    impl,         \* which of the two parse implementations is called
    parsed,       \* result of parse, or Idle before the call
    \* -- dispatch --
    decl,         \* the user-declared enum: a sequence of variants
    derived,      \* output of the derive macro, or Idle before expansion
    callName,     \* method name of the current call
    callParams,   \* parameters (deserializer contents) of the current call
    outcome,      \* result of the last deserialize_command / _event call
    deAttempts,   \* serde::Deserialize::deserialize calls made by that call
    \* -- schema compiler --
    domains,      \* the Definition's domain list
    genpc,        \* position of the compiler
    work,         \* analyzer items still to traverse, in source order
    reference_graph,   \* edges <<from, to>> of the petgraph Graph
    item_indices,      \* nodes created through item_index
    uses_lifetime_set, \* result of generate_uses_lifetime_set
    emitted,      \* declarations pushed to type_defs, in order
    \* -- error kinds --
    kindConv,     \* a conversion between an error kind and its code
    \* -- a generated enum at run time --
    enumDef,      \* the enum declaration the compiler emitted
    enumCall,     \* the last from_str call and what Display made of it
    \* -- deprecation metadata --
    deprNodes,    \* a domain, one of its items and one of the item's fields
    deprStatus,   \* the DeprecationStatus computed for each of them
    \* -- outgoing messages --
    outCall,      \* the serialisation that is asked for, and of which type
    wire,         \* the JSON value on the wire
    received,     \* what deserialising the wire gave
    \* -- the generator's main --
    loader,       \* the two protocol files and how far main has come
    \* -- callers of one dispatch function --
    threads,      \* per thread: the call it makes and the outcome it got
    callLog       \* one earlier call that was kept for comparison

vars == <<payload, impl, parsed,
          decl, derived, callName, callParams, outcome, deAttempts,
          domains, genpc, work, reference_graph, item_indices,
          uses_lifetime_set, emitted,
          kindConv, enumDef, enumCall, deprNodes, deprStatus,
          outCall, wire, received, loader, threads, callLog>>

parseVars == <<payload, impl, parsed>>
dispatchVars == <<decl, derived, callName, callParams, outcome, deAttempts>>
genVars == <<domains, genpc, work, reference_graph, item_indices,
             uses_lifetime_set, emitted>>
kindVars == <<kindConv>>
enumVars == <<enumDef, enumCall>>
deprVars == <<deprNodes, deprStatus>>
outVars == <<outCall, wire, received>>
loadVars == <<loader>>
callVars == <<threads, callLog>>

\* What the actions of one component leave alone.
notParse == <<dispatchVars, genVars, kindVars, enumVars, deprVars, outVars, loadVars, callVars>>
notDispatch == <<parseVars, genVars, kindVars, enumVars, deprVars, outVars, loadVars, callVars>>
notGen == <<parseVars, dispatchVars, kindVars, enumVars, deprVars, outVars, loadVars, callVars>>
notKind == <<parseVars, dispatchVars, genVars, enumVars, deprVars, outVars, loadVars, callVars>>
notEnum == <<parseVars, dispatchVars, genVars, kindVars, deprVars, outVars, loadVars, callVars>>
notDepr == <<parseVars, dispatchVars, genVars, kindVars, enumVars, outVars, loadVars, callVars>>
notOut == <<parseVars, dispatchVars, genVars, kindVars, enumVars, deprVars, loadVars, callVars>>
notLoad == <<parseVars, dispatchVars, genVars, kindVars, enumVars, deprVars, outVars, callVars>>
notCall == <<parseVars, dispatchVars, genVars, kindVars, enumVars, deprVars, outVars, loadVars>>

Idle == [k |-> "idle"]
None == [k |-> "none"]
Some(x) == [k |-> "some", v |-> x]

ParseIdle == payload = Idle /\ impl = Idle /\ parsed = Idle
DispatchIdle ==
    /\ decl = Idle /\ derived = Idle /\ callName = Idle /\ callParams = Idle
    /\ outcome = Idle /\ deAttempts = 0
GenIdle ==
    /\ domains = Idle /\ genpc = Idle /\ work = Idle /\ reference_graph = Idle
    /\ item_indices = Idle /\ uses_lifetime_set = Idle /\ emitted = Idle
KindIdle == kindConv = Idle
EnumIdle == enumDef = Idle /\ enumCall = Idle
DeprIdle == deprNodes = Idle /\ deprStatus = Idle
OutIdle == outCall = Idle /\ wire = Idle /\ received = Idle
LoadIdle == loader = Idle
CallIdle == threads = Idle /\ callLog = Idle

(***************************************************************************)
(* JSON values (serde_json::Value).  k is the kind; numbers are split by   *)
(* what Value::as_u64 distinguishes: "uint" is a non-negative integer,     *)
(* "nint" a negative integer, "float" a number written with a fraction.    *)
(* An object is a function from its keys to values, so key order is not    *)
(* represented.                                                            *)
(***************************************************************************)
JNull == [k |-> "null"]
JBool(b) == [k |-> "bool", v |-> b]
JUint(n) == [k |-> "uint", v |-> n]
JNint(n) == [k |-> "nint", v |-> n]
JFloat(n) == [k |-> "float", v |-> n]
JStr(s) == [k |-> "str", v |-> s]
JArr(s) == [k |-> "arr", v |-> s]
JObj(f) == [k |-> "obj", v |-> f]

EmptyMap == [x \in {} |-> JNull]
Map1(key, val) == [x \in {key} |-> val]

\* The deserializer's input was not syntactically valid JSON.
Malformed == [k |-> "malformed"]

\* Map::get / Map::remove as used by parse: the member, or None.
MapGet(obj, key) == IF key \in DOMAIN obj THEN Some(obj[key]) ELSE None

\* A slip that takes the magnitude of a negative integer.
as_u64_signed(value) == IF value.k \in {"uint", "nint"} THEN Some(value.v) ELSE None

\* Value::as_u64
as_u64(value) == IF value.k = "uint" THEN Some(value.v) ELSE None

\* A slip that takes a JSON string for a malformed message.
Value_deserialize_noStrings(d) ==
    IF d = Malformed \/ d.k = "str" THEN [k |-> "err"] ELSE [k |-> "ok", v |-> d]

\* Value::deserialize(deserializer): Err on malformed input, else the value.
Value_deserialize(d) == IF d = Malformed THEN [k |-> "err"] ELSE [k |-> "ok", v |-> d]

(***************************************************************************)
(* Error objects                                                           *)
(***************************************************************************)
ParseErrorCode == 0 - 32700
InvalidRequestCode == 0 - 32600
MethodNotFoundCode == 0 - 32601
InvalidParamsCode == 0 - 32602
InternalErrorCode == 0 - 32603
ServerErrorCode == 0 - 32000

invalid_message == [kind |-> "ParseError", message |-> "Message must be a valid JSON"]
must_be_object == [kind |-> "InvalidRequest", message |-> "Message must be an object"]
must_have_id ==
    [kind |-> "InvalidRequest", message |-> "Message must have integer 'id' porperty"]
must_have_method ==
    [kind |-> "InvalidRequest", message |-> "Message must have string 'method' porperty"]

ParseErr(error, id) == [k |-> "Err", error |-> error, id |-> id]
ParseOk(id, method, params) ==
    [k |-> "Ok", id |-> id, command_name |-> method, command_params |-> params]

(***************************************************************************)
(* CdpIncoming::parse                                                      *)
(***************************************************************************)
\* A slip that forgets the params member altogether.
ParseParams_dropped(obj) == EmptyMap

ParseParams(obj) ==
    LET p == MapGet(obj, "params")
    IN IF p.k = "some" /\ p.v.k = "obj" THEN p.v.v ELSE EmptyMap

\* A slip that drops the id from the must_have_method failure.
ParseMethod_noId(obj, id) ==
    LET m == MapGet(obj, "method")
    IN IF m.k = "some" /\ m.v.k = "str"
       THEN ParseOk(id, m.v.v, ParseParams(obj))
       ELSE ParseErr(must_have_method, None)

ParseMethod(obj, id) ==
    LET m == MapGet(obj, "method")
    IN IF m.k = "some" /\ m.v.k = "str"
       THEN ParseOk(id, m.v.v, ParseParams(obj))
       ELSE ParseErr(must_have_method, Some(id))

\* A slip that looks for the method before the id.
ParseId_methodFirst(obj) ==
    LET i == MapGet(obj, "id")
        id == IF i.k = "some" THEN as_u64(i.v) ELSE None
        m == MapGet(obj, "method")
    IN IF ~(m.k = "some" /\ m.v.k = "str")
       THEN ParseErr(must_have_method, id)
       ELSE IF id.k = "some" THEN ParseMethod(obj, id.v)
       ELSE ParseErr(must_have_id, None)

ParseId(obj) ==
    LET i == MapGet(obj, "id")
        id == IF i.k = "some" THEN as_u64(i.v) ELSE None
    IN IF id.k = "some" THEN ParseMethod(obj, id.v) ELSE ParseErr(must_have_id, None)

CdpIncoming_parse(d) ==
    LET value == Value_deserialize(d)
    IN IF value.k = "err" THEN ParseErr(invalid_message, None)
       ELSE IF value.v.k # "obj" THEN ParseErr(must_be_object, None)
       ELSE ParseId(value.v.v)

\* JsonCdpIncoming::parse (src/json.rs): the same steps, written out again
\* in the older crate.
JsonCdpIncoming_parse(d) ==
    LET value == Value_deserialize(d)
    IN IF value.k = "err" THEN ParseErr(invalid_message, None)
       ELSE IF value.v.k # "obj" THEN ParseErr(must_be_object, None)
       ELSE LET obj == value.v.v
                i == MapGet(obj, "id")
                id == IF i.k = "some" THEN as_u64(i.v) ELSE None
                m == MapGet(obj, "method")
                p == MapGet(obj, "params")
            IN IF id.k # "some" THEN ParseErr(must_have_id, None)
               ELSE IF ~(m.k = "some" /\ m.v.k = "str")
                    THEN ParseErr(must_have_method, Some(id.v))
               ELSE ParseOk(id.v, m.v.v,
                            IF p.k = "some" /\ p.v.k = "obj" THEN p.v.v ELSE EmptyMap)

\* ---- inputs of SpecParse ----
MaxId == 2
ParamObjects == {EmptyMap, Map1("url", JStr("u")), Map1("n", JUint(7))}
Scalars == {JNull, JBool(TRUE), JNint(0 - 1), JFloat(1), JStr("hello"),
            JStr("0"), JArr(<<>>)} \cup {JUint(n) : n \in 0..MaxId}
MemberValues == Scalars \cup {JStr("Page.enable")} \cup {JObj(o) : o \in ParamObjects}
Keys == {"id", "method", "params", "extra"}
Objects == UNION {[ks -> MemberValues] : ks \in SUBSET Keys}
\* Keep the payload universe small: the "extra" member only takes one value.
Payloads ==
    {Malformed} \cup Scalars
    \cup {JObj(o) : o \in {x \in Objects : "extra" \in DOMAIN x => x["extra"] = JNull}}

InitParse ==
    /\ payload \in Payloads
    /\ impl \in {"cdp", "json"}
    /\ parsed = Idle
    /\ DispatchIdle /\ GenIdle /\ KindIdle /\ EnumIdle /\ DeprIdle /\ OutIdle /\ LoadIdle /\ CallIdle

Parse ==
    /\ parsed = Idle
    /\ parsed' = IF impl = "cdp" THEN CdpIncoming_parse(payload)
                 ELSE JsonCdpIncoming_parse(payload)
    /\ UNCHANGED <<payload, impl, notParse>>

NextParse == Parse

SpecParse == InitParse /\ [][NextParse]_vars

(***************************************************************************)
(* Dispatch: parameter types and serde::Deserialize                        *)
(*                                                                         *)
(* A parameter type is described by what its Deserialize impl needs:       *)
(*   "Empty"  cdp::Empty and the field-less request structs, which         *)
(*            deserialize through it: any JSON object                      *)
(*   "Struct" a generated request struct: an object holding every          *)
(*            required member as a string                                  *)
(*   "Map"    serde_json::Map<String, Value>: any JSON object              *)
(*   "Value"  serde_json::Value: any JSON value                            *)
(* name_const is the type's CdpCommand::COMMAND_NAME / CdpEvent::EVENT_NAME*)
(* when it has one.                                                        *)
(***************************************************************************)
TyEmpty == [shape |-> "Empty", required |-> {}, name_const |-> None]
TyEnable == [shape |-> "Empty", required |-> {}, name_const |-> Some("Page.enable")]
TyNavigate ==
    [shape |-> "Struct", required |-> {"url"}, name_const |-> Some("Page.navigate")]
TyMap == [shape |-> "Map", required |-> {}, name_const |-> None]
TyValue == [shape |-> "Value", required |-> {}, name_const |-> None]

DeOk(value) == [k |-> "ok", v |-> value]
DeErr == [k |-> "err"]

\* serde::Deserialize::deserialize(params) for the target type ty.
Deserialize(ty, params) ==
    IF params = Malformed THEN DeErr
    ELSE IF ty.shape = "Value" THEN DeOk(params)
    ELSE IF params.k # "obj" THEN DeErr
    ELSE IF ty.shape = "Map" THEN DeOk(params.v)
    ELSE IF ty.shape = "Empty" THEN DeOk([x \in {} |-> JNull])
    ELSE IF \A key \in ty.required : key \in DOMAIN params.v /\ params.v[key].k = "str"
         THEN DeOk([key \in ty.required |-> params.v[key].v])
    ELSE DeErr

(***************************************************************************)
(* cdp-derive: the derive macro                                            *)
(***************************************************************************)
\* An attribute: #[cdp = "text"] is [ident "cdp", form "str"]; #[cdp] or
\* #[cdp(...)] is form "other"; attributes of other crates have another ident.
Attr(ident, form, text) == [ident |-> ident, form |-> form, text |-> text]
CdpName(text) == Attr("cdp", "str", text)

\* A slip that keeps the first name annotation and ignores any further one.
RECURSIVE extract_method_name_from_attrs_keepFirst(_, _)
extract_method_name_from_attrs_keepFirst(attrs, maybe_method_name) ==
    IF attrs = <<>> THEN [k |-> "Ok", v |-> maybe_method_name]
    ELSE LET attr == Head(attrs)
         IN IF attr.form = "str"
            THEN IF attr.ident = "cdp" /\ maybe_method_name = None
                 THEN extract_method_name_from_attrs_keepFirst(Tail(attrs),
                                                               Some(attr.text))
                 ELSE extract_method_name_from_attrs_keepFirst(Tail(attrs),
                                                               maybe_method_name)
            ELSE IF attr.ident = "cdp"
                 THEN [k |-> "Err",
                       msg |-> "cdp attribute must be used in #[cdp = ...] form"]
                 ELSE extract_method_name_from_attrs_keepFirst(Tail(attrs),
                                                               maybe_method_name)

\* extract_method_name_from_attrs: the loop over attrs, carrying
\* maybe_method_name; the result is Ok(maybe_method_name) or Err(message).
RECURSIVE extract_method_name_from_attrs(_, _)
extract_method_name_from_attrs(attrs, maybe_method_name) ==
    IF attrs = <<>> THEN [k |-> "Ok", v |-> maybe_method_name]
    ELSE LET attr == Head(attrs)
         IN IF attr.form = "str"
            THEN IF attr.ident = "cdp"
                 THEN IF maybe_method_name = None
                      THEN extract_method_name_from_attrs(Tail(attrs), Some(attr.text))
                      ELSE [k |-> "Err", msg |-> "multiple cdp attributes"]
                 ELSE extract_method_name_from_attrs(Tail(attrs), maybe_method_name)
            ELSE IF attr.ident = "cdp"
                 THEN [k |-> "Err",
                       msg |-> "cdp attribute must be used in #[cdp = ...] form"]
                 ELSE extract_method_name_from_attrs(Tail(attrs), maybe_method_name)

\* The accumulators of generate_cdp_deserialize_impl.
NoArms == [k |-> "Ok", match_arms |-> <<>>, maybe_wildcard_arm |-> None]
DeriveErr(msg) == [k |-> "Err", msg |-> msg]

\* A typed match arm: pattern => Ok(Deserialize::deserialize(params).map(ctor)).
Arm(pattern, variant, ty) == [pattern |-> pattern, variant |-> variant, ty |-> ty]

\* A slip that lets variants follow a wildcard: a later wildcard replaces it.
generate_cdp_deserialize_impl_arm_anyOrder(acc, variants, idx) ==
    LET variant == variants[idx]
        name == extract_method_name_from_attrs(variant.attrs, None)
    IN IF name.k = "Err" THEN DeriveErr(name.msg)
       ELSE CASE variant.fields = 0 ->
                   IF name.v = None
                   THEN DeriveErr("unit variant is missing a #[cdp = ...] attribute")
                   ELSE [acc EXCEPT !.match_arms =
                            Append(@, Arm(name.v.v, idx, TyEmpty))]
              [] variant.fields = 1 ->
                   [acc EXCEPT !.match_arms =
                       Append(@, Arm(IF name.v # None THEN name.v.v
                                     ELSE variant.ty.name_const.v,
                                     idx, variant.ty))]
              [] variant.fields = 2 ->
                   [acc EXCEPT !.maybe_wildcard_arm =
                       Some([variant |-> idx, ty |-> variant.ty])]
              [] OTHER -> DeriveErr("expected 0, 1, or 2 fields")

\* A slip that passes over a variant with more than two fields.
generate_cdp_deserialize_impl_arm_anyArity(acc, variants, idx) ==
    LET variant == variants[idx]
        name == extract_method_name_from_attrs(variant.attrs, None)
    IN IF acc.maybe_wildcard_arm # None
       THEN DeriveErr("any wildcard variant (with 2 fields) must come last")
       ELSE IF name.k = "Err" THEN DeriveErr(name.msg)
       ELSE CASE variant.fields = 0 ->
                   IF name.v = None
                   THEN DeriveErr("unit variant is missing a #[cdp = ...] attribute")
                   ELSE [acc EXCEPT !.match_arms =
                            Append(@, Arm(name.v.v, idx, TyEmpty))]
              [] variant.fields = 1 ->
                   [acc EXCEPT !.match_arms =
                       Append(@, Arm(IF name.v # None THEN name.v.v
                                     ELSE variant.ty.name_const.v,
                                     idx, variant.ty))]
              [] variant.fields = 2 ->
                   [acc EXCEPT !.maybe_wildcard_arm =
                       Some([variant |-> idx, ty |-> variant.ty])]
              [] OTHER -> acc

\* generate_cdp_deserialize_impl_arm for the variant at position idx.
generate_cdp_deserialize_impl_arm(acc, variants, idx) ==
    LET variant == variants[idx]
        name == extract_method_name_from_attrs(variant.attrs, None)
    IN IF acc.maybe_wildcard_arm # None
       THEN DeriveErr("any wildcard variant (with 2 fields) must come last")
       ELSE IF name.k = "Err" THEN DeriveErr(name.msg)
       ELSE CASE variant.fields = 0 ->
                   IF name.v = None
                   THEN DeriveErr("unit variant is missing a #[cdp = ...] attribute")
                   ELSE [acc EXCEPT !.match_arms =
                            Append(@, Arm(name.v.v, idx, TyEmpty))]
              [] variant.fields = 1 ->
                   [acc EXCEPT !.match_arms =
                       Append(@, Arm(IF name.v # None THEN name.v.v
                                     ELSE variant.ty.name_const.v,
                                     idx, variant.ty))]
              [] variant.fields = 2 ->
                   [acc EXCEPT !.maybe_wildcard_arm =
                       Some([variant |-> idx, ty |-> variant.ty])]
              [] OTHER -> DeriveErr("expected 0, 1, or 2 fields")

\* The for variant in variants loop; ? returns the first error.
RECURSIVE derive_loop(_, _, _)
derive_loop(acc, variants, idx) ==
    IF idx > Len(variants) \/ acc.k = "Err" THEN acc
    ELSE derive_loop(generate_cdp_deserialize_impl_arm(acc, variants, idx),
                     variants, idx + 1)

generate_cdp_deserialize_impl(input) ==
    IF input.body # "enum" THEN DeriveErr("expected an enum definition")
    ELSE derive_loop(NoArms, input.variants, 1)

(***************************************************************************)
(* The generated deserialize_command / deserialize_event                   *)
(***************************************************************************)
NotRecognized(params) == [k |-> "Err", params |-> params]
Selected(variant, result) ==
    [k |-> "Ok", variant |-> variant, result |-> result]

\* ::std::convert::From::from(name) for the wildcard's name container.
convert_name(name) == name

\* A slip that lets a later arm with the same pattern win.
RECURSIVE FirstArm_last(_, _, _)
FirstArm_last(match_arms, name, i) ==
    IF i > Len(match_arms) THEN 0
    ELSE LET later == FirstArm_last(match_arms, name, i + 1)
         IN IF later # 0 THEN later
            ELSE IF match_arms[i].pattern = name THEN i ELSE 0

\* Position of the first arm of match name { ... } whose pattern equals
\* name, 0 when only the final arm (wildcard or _ => Err(params)) applies.
RECURSIVE FirstArm(_, _, _)
FirstArm(match_arms, name, i) ==
    IF i > Len(match_arms) THEN 0
    ELSE IF match_arms[i].pattern = name THEN i
    ELSE FirstArm(match_arms, name, i + 1)

\* A slip whose default arm deserializes the parameters before giving up.
deserialize_enum_tryEmpty(impl_, name, params) ==
    LET i == FirstArm(impl_.match_arms, name, 1)
    IN IF i # 0
       THEN [outcome |-> Selected(impl_.match_arms[i].variant,
                                  Deserialize(impl_.match_arms[i].ty, params)),
             attempts |-> 1]
       ELSE IF impl_.maybe_wildcard_arm # None
       THEN LET w == impl_.maybe_wildcard_arm.v
                de == Deserialize(w.ty, params)
            IN [outcome |-> Selected(w.variant,
                     IF de.k = "ok"
                     THEN DeOk([name |-> convert_name(name), params |-> de.v])
                     ELSE de),
                attempts |-> 1]
       ELSE [outcome |-> NotRecognized(Malformed), attempts |-> 1]

\* A slip that leaves the wildcard arm out of the match.
deserialize_enum_noWildcard(impl_, name, params) ==
    LET i == FirstArm(impl_.match_arms, name, 1)
    IN IF i # 0
       THEN [outcome |-> Selected(impl_.match_arms[i].variant,
                                  Deserialize(impl_.match_arms[i].ty, params)),
             attempts |-> 1]
       ELSE [outcome |-> NotRecognized(params), attempts |-> 0]

\* A slip that treats a typed arm's deserialization failure as no match.
deserialize_enum_fallthrough(impl_, name, params) ==
    LET i == FirstArm(impl_.match_arms, name, 1)
        typed == IF i # 0 THEN Deserialize(impl_.match_arms[i].ty, params) ELSE DeErr
    IN IF i # 0 /\ typed.k = "ok"
       THEN [outcome |-> Selected(impl_.match_arms[i].variant, typed), attempts |-> 1]
       ELSE IF impl_.maybe_wildcard_arm # None
       THEN LET w == impl_.maybe_wildcard_arm.v
                de == Deserialize(w.ty, params)
            IN [outcome |-> Selected(w.variant,
                     IF de.k = "ok"
                     THEN DeOk([name |-> convert_name(name), params |-> de.v])
                     ELSE de),
                attempts |-> 1]
       ELSE [outcome |-> NotRecognized(params), attempts |-> 0]

\* The body of the generated function: [outcome, attempts].
deserialize_enum(impl_, name, params) ==
    LET i == FirstArm(impl_.match_arms, name, 1)
    IN IF i # 0
       THEN [outcome |-> Selected(impl_.match_arms[i].variant,
                                  Deserialize(impl_.match_arms[i].ty, params)),
             attempts |-> 1]
       ELSE IF impl_.maybe_wildcard_arm # None
       THEN LET w == impl_.maybe_wildcard_arm.v
                de == Deserialize(w.ty, params)
            IN [outcome |-> Selected(w.variant,
                     IF de.k = "ok"
                     THEN DeOk([name |-> convert_name(name), params |-> de.v])
                     ELSE de),
                attempts |-> 1]
       ELSE [outcome |-> NotRecognized(params), attempts |-> 0]

\* The impl generate_method emits for a request type: variant 1 is the
\* request type itself.
deserialize_method(request, name, params) ==
    IF name = request.method_qualified
    THEN [outcome |-> Selected(1, Deserialize(request.ty, params)), attempts |-> 1]
    ELSE [outcome |-> NotRecognized(params), attempts |-> 0]

\* ---- inputs of SpecDispatch ----
MaxVariants == 3

Variant(fields, attrs, ty) == [fields |-> fields, attrs |-> attrs, ty |-> ty]
VariantChoices ==
    { Variant(0, <<CdpName("X.a")>>, TyEmpty),
      Variant(0, <<>>, TyEmpty),
      Variant(0, <<CdpName("X.a"), CdpName("X.b")>>, TyEmpty),
      Variant(1, <<CdpName("X.a")>>, TyNavigate),
      Variant(1, <<Attr("doc", "str", "d"), CdpName("X.b")>>, TyEnable),
      Variant(1, <<>>, TyNavigate),
      Variant(1, <<Attr("cdp", "other", "")>>, TyEnable),
      Variant(2, <<>>, TyValue),
      Variant(2, <<CdpName("X.a")>>, TyMap),
      Variant(3, <<>>, TyValue) }

RECURSIVE SeqsUpTo(_, _)
SeqsUpTo(S, n) ==
    IF n = 0 THEN {<<>>}
    ELSE LET shorter == SeqsUpTo(S, n - 1)
         IN shorter \cup {Append(q, x) : q \in shorter, x \in S}

EnumDecls ==
    {[body |-> "enum", kind |-> kind, variants |-> vs] :
        kind \in {"Command", "Event"}, vs \in SeqsUpTo(VariantChoices, MaxVariants)}
    \cup {[body |-> "struct", kind |-> "Command", variants |-> <<>>]}
MethodDecls ==
    {[body |-> "method", method_qualified |-> "Page.navigate", ty |-> TyNavigate],
     [body |-> "method", method_qualified |-> "Page.enable", ty |-> TyEnable]}

Names == {"X.a", "X.b", "Page.navigate", "Y.z"}
CallParams ==
    {Malformed, JUint(7), JObj(EmptyMap), JObj(Map1("url", JStr("u"))),
     JObj(Map1("url", JUint(7)))}

InitDispatch ==
    /\ decl \in EnumDecls \cup MethodDecls
    /\ derived = Idle /\ callName = Idle /\ callParams = Idle
    /\ outcome = Idle /\ deAttempts = 0
    /\ ParseIdle /\ GenIdle /\ KindIdle /\ EnumIdle /\ DeprIdle /\ OutIdle /\ LoadIdle /\ CallIdle

\* Macro expansion of #[derive(DeserializeCdpCommand)] / ...Event.
Derive ==
    /\ decl.body # "method" /\ derived = Idle
    /\ derived' = generate_cdp_deserialize_impl(decl)
    /\ UNCHANGED <<decl, callName, callParams, outcome, deAttempts, notDispatch>>

\* A call of the derived deserialize_command / deserialize_event.
DispatchEnum ==
    /\ derived # Idle /\ derived.k = "Ok"
    /\ \E name \in Names, params \in CallParams :
         LET r == deserialize_enum(derived, name, params)
         IN /\ callName' = name /\ callParams' = params
            /\ outcome' = r.outcome /\ deAttempts' = r.attempts
    /\ UNCHANGED <<decl, derived, notDispatch>>

\* A call of a generated request type's deserialize_command / _event.
DispatchMethod ==
    /\ decl.body = "method"
    /\ \E name \in Names, params \in CallParams :
         LET r == deserialize_method(decl, name, params)
         IN /\ callName' = name /\ callParams' = params
            /\ outcome' = r.outcome /\ deAttempts' = r.attempts
    /\ UNCHANGED <<decl, derived, notDispatch>>

NextDispatch == Derive \/ DispatchEnum \/ DispatchMethod

SpecDispatch == InitDispatch /\ [][NextDispatch]_vars

(***************************************************************************)
(* Several threads calling one dispatch function.  A call is two steps,    *)
(* the entry with its arguments and the return with its outcome, so that   *)
(* the calls of different threads overlap.                                 *)
(***************************************************************************)
MaxThreads == 2
Threads == 1..MaxThreads

Calling(name, params) == [k |-> "call", v |-> [name |-> name, params |-> params]]
Returned(name, params, result) ==
    [k |-> "done", v |-> [name |-> name, params |-> params, outcome |-> result]]

\* A slip that keeps the outcome of an earlier call under the name alone.
deserialize_fn_keepsLast(name, params) ==
    IF callLog # None /\ callLog.v.name = name THEN callLog.v.outcome
    ELSE IF decl.body = "method" THEN deserialize_method(decl, name, params).outcome
    ELSE deserialize_enum(derived, name, params).outcome

\* The generated deserialize_command / deserialize_event: a match on name
\* over the arms of the declaration, with no other input than params.
deserialize_fn(name, params) ==
    IF decl.body = "method" THEN deserialize_method(decl, name, params).outcome
    ELSE deserialize_enum(derived, name, params).outcome

CallDecls ==
    {[body |-> "enum", kind |-> "Command",
      variants |-> <<Variant(1, <<CdpName("X.a")>>, TyNavigate), Variant(2, <<>>, TyValue)>>],
     [body |-> "enum", kind |-> "Event",
      variants |-> <<Variant(0, <<CdpName("X.a")>>, TyEmpty),
                     Variant(1, <<CdpName("Page.navigate")>>, TyNavigate)>>],
     [body |-> "method", method_qualified |-> "Page.navigate", ty |-> TyNavigate]}
CallNames == {"X.a", "Page.navigate", "Y.z"}
CallArgs == {JUint(7), JObj(EmptyMap), JObj(Map1("url", JStr("u")))}

InitCalls ==
    /\ decl \in CallDecls
    /\ derived = Idle /\ callName = Idle /\ callParams = Idle
    /\ outcome = Idle /\ deAttempts = 0
    /\ threads = [t \in Threads |-> Idle]
    /\ callLog = None
    /\ ParseIdle /\ GenIdle /\ KindIdle /\ EnumIdle /\ DeprIdle /\ OutIdle /\ LoadIdle

\* A thread enters the function with a name and parameters of its own.
EnterCall(t) ==
    /\ decl.body = "method" \/ (derived # Idle /\ derived.k = "Ok")
    /\ threads[t].k # "call"
    /\ \E name \in CallNames, params \in CallArgs :
          threads' = [threads EXCEPT ![t] = Calling(name, params)]
    /\ UNCHANGED <<callLog, notCall>>

\* The thread's call returns; the call may be the one kept for comparison.
ReturnCall(t) ==
    /\ threads[t].k = "call"
    /\ LET name == threads[t].v.name
           params == threads[t].v.params
           done == Returned(name, params, deserialize_fn(name, params))
       IN /\ threads' = [threads EXCEPT ![t] = done]
          /\ callLog' \in {callLog, done}
    /\ UNCHANGED notCall

NextCalls == Derive \/ (\E t \in Threads : EnterCall(t)) \/ (\E t \in Threads : ReturnCall(t))

SpecCalls == InitCalls /\ [][NextCalls]_vars

(***************************************************************************)
(* OwnedClientMessage::parse_incoming (websocket.rs): the envelope is      *)
(* parsed and the command dispatched in one function.                      *)
(***************************************************************************)
DevToolsError(kind, message, data) == [kind |-> kind, message |-> message, data |-> data]
\* e.to_string() of the deserialiser's error is not modelled letter by letter.
ErrorText == JStr("serde error")

\* The commands the generated Command enum knows, with their parameter types.
CommandTable == [c \in {"Page.enable", "Page.navigate"} |->
                    IF c = "Page.enable" THEN TyEmpty ELSE TyNavigate]

\* Command::parse_command: None for a name that no arm matches, else what
\* deserialising the parameters gave.
parse_command(method, params) ==
    IF method \in DOMAIN CommandTable
    THEN Some(Deserialize(CommandTable[method], params))
    ELSE None

IncomingOk(id, method, params) ==
    [k |-> "Ok", id |-> id, command |-> [method |-> method, params |-> params]]

\* A slip that reports an unknown method as invalid parameters.
parse_incoming_unknownAsParams(d) ==
    LET value == Value_deserialize(d)
    IN IF value.k = "err"
       THEN ParseErr(DevToolsError("ParseError", "Message must be a valid JSON", None), None)
       ELSE IF value.v.k # "obj"
       THEN ParseErr(DevToolsError("InvalidRequest", "Message must be an object", None), None)
       ELSE LET obj == value.v.v
                i == MapGet(obj, "id")
                id == IF i.k = "some" THEN as_u64(i.v) ELSE None
                mm == MapGet(obj, "method")
                pp == MapGet(obj, "params")
                params == IF pp.k = "some" THEN pp.v ELSE JNull
            IN IF id.k # "some"
               THEN ParseErr(DevToolsError("InvalidRequest",
                        "Message must have integer 'id' porperty", None), None)
               ELSE IF ~(mm.k = "some" /\ mm.v.k = "str")
               THEN ParseErr(DevToolsError("InvalidRequest",
                        "Message must have string 'method' porperty", None), Some(id.v))
               ELSE LET command == parse_command(mm.v.v, params)
                    IN IF command = None \/ command.v.k = "err"
                       THEN ParseErr(DevToolsError("InvalidParams", "Invalid parameters",
                                                   Some(ErrorText)), Some(id.v))
                       ELSE IncomingOk(id.v, mm.v.v, command.v.v)

\* OwnedClientMessage::parse_incoming
parse_incoming(d) ==
    LET value == Value_deserialize(d)
    IN IF value.k = "err"
       THEN ParseErr(DevToolsError("ParseError", "Message must be a valid JSON", None), None)
       ELSE IF value.v.k # "obj"
       THEN ParseErr(DevToolsError("InvalidRequest", "Message must be an object", None), None)
       ELSE LET obj == value.v.v
                i == MapGet(obj, "id")
                id == IF i.k = "some" THEN as_u64(i.v) ELSE None
                mm == MapGet(obj, "method")
                pp == MapGet(obj, "params")
                params == IF pp.k = "some" THEN pp.v ELSE JNull
            IN IF id.k # "some"
               THEN ParseErr(DevToolsError("InvalidRequest",
                        "Message must have integer 'id' porperty", None), None)
               ELSE IF ~(mm.k = "some" /\ mm.v.k = "str")
               THEN ParseErr(DevToolsError("InvalidRequest",
                        "Message must have string 'method' porperty", None), Some(id.v))
               ELSE LET command == parse_command(mm.v.v, params)
                    IN IF command = None
                       THEN ParseErr(DevToolsError("MethodNotFound",
                                "'" \o mm.v.v \o "' wasn't found", None), Some(id.v))
                       ELSE IF command.v.k = "err"
                       THEN ParseErr(DevToolsError("InvalidParams", "Invalid parameters",
                                                   Some(ErrorText)), Some(id.v))
                       ELSE IncomingOk(id.v, mm.v.v, command.v.v)

\* ---- inputs of SpecIncoming ----
IncomingMember(key) ==
    CASE key = "id" -> {JUint(n) : n \in 0..MaxId} \cup {JStr("0"), JNint(0 - 1)}
      [] key = "method" -> {JStr("Page.enable"), JStr("Page.navigate"), JStr("Foo.bar"),
                            JUint(7)}
      [] key = "params" -> {JNull, JUint(7), JObj(EmptyMap), JObj(Map1("url", JStr("u"))),
                            JObj(Map1("url", JUint(7)))}
IncomingPayloads ==
    {Malformed, JUint(1), JStr("hello")}
    \cup UNION {{JObj(o) : o \in {f \in [ks -> UNION {IncomingMember(key) : key \in ks}] :
                                     \A key \in ks : f[key] \in IncomingMember(key)}} :
                   ks \in SUBSET {"id", "method", "params"}}

InitIncoming ==
    /\ payload \in IncomingPayloads
    /\ impl = "ws"
    /\ parsed = Idle
    /\ DispatchIdle /\ GenIdle /\ KindIdle /\ EnumIdle /\ DeprIdle /\ OutIdle /\ LoadIdle
    /\ CallIdle

ParseIncoming ==
    /\ impl = "ws" /\ parsed = Idle
    /\ parsed' = parse_incoming(payload)
    /\ UNCHANGED <<payload, impl, notParse>>

NextIncoming == ParseIncoming

SpecIncoming == InitIncoming /\ [][NextIncoming]_vars

(***************************************************************************)
(* Schema compiler: names                                                  *)
(*                                                                         *)
(* A schema name is the sequence of its words ("fooBar" is foo, Bar), each *)
(* word written with or without a leading capital.  The case conversions   *)
(* re-capitalise the words; two names give the same identifier exactly     *)
(* when the converted word sequences are equal.                            *)
(***************************************************************************)
Up(s) == [w |-> s, up |-> TRUE]
Lo(s) == [w |-> s, up |-> FALSE]

\* Inflector's to_snake_case().to_pascal_case(): every word capitalised.
pascal_case(src) == [i \in 1..Len(src) |-> [src[i] EXCEPT !.up = TRUE]]
pascal_case_ident(src) == pascal_case(src)

\* to_snake_case() with the two reserved-word substitutions.
snake_case(src) ==
    LET snake == [i \in 1..Len(src) |-> [src[i] EXCEPT !.up = FALSE]]
    IN IF snake = <<Lo("type")>> THEN <<Lo("ty")>>
       ELSE IF snake = <<Lo("override")>> THEN <<Lo("overridden")>>
       ELSE snake
snake_case_ident(src) == snake_case(src)

\* A reference target is the string "Name" or "Domain.Name".
Target(domain, name) == [domain |-> domain, name |-> name]
Local(name) == Target(None, name)
Qualified(domain, name) == Target(Some(domain), name)
\* The words of the whole target string: the dot separates words like any
\* other non-alphanumeric character.
TargetWords(target) ==
    IF target.domain = None THEN target.name ELSE <<target.domain.v>> \o target.name

fully_qualified_ident(domain_snake_case, item_ident) ==
    [domain |-> domain_snake_case, item |-> item_ident]

\* resolve_reference: INTER_DOMAIN_RE splits "Domain.Name".
resolve_reference(domain_snake_case, target, target_pascal_case) ==
    IF target.domain = None
    THEN fully_qualified_ident(domain_snake_case, target_pascal_case)
    ELSE fully_qualified_ident(snake_case_ident(<<target.domain.v>>),
                               pascal_case_ident(target.name))

combine_parent_field_idents(parent_pascal_case, field_name) ==
    IF field_name = None THEN parent_pascal_case
    ELSE parent_pascal_case \o pascal_case_ident(field_name.v)

(***************************************************************************)
(* Schema compiler: the schema model (cdp_definition)                      *)
(***************************************************************************)
TBoolean == [t |-> "Boolean"]
TInteger == [t |-> "Integer"]
TNumber == [t |-> "Number"]
TString == [t |-> "String"]
TAny == [t |-> "Any"]
TEnum(values) == [t |-> "Enum", values |-> values]
TReference(target) == [t |-> "Reference", target |-> target]
TArray(item) == [t |-> "Array", item |-> item, min_items |-> None, max_items |-> None]
TArrayN(item, n) ==
    [t |-> "Array", item |-> item, min_items |-> Some(n), max_items |-> Some(n)]
TObject(fields) == [t |-> "Object", fields |-> fields]
Field(name, ty) == [name |-> name, ty |-> ty, optional |-> FALSE]
OptionalField(name, ty) == [name |-> name, ty |-> ty, optional |-> TRUE]
TypeDef(name, ty) == [name |-> name, ty |-> ty]
Method(name, parameters, returns) ==
    [name |-> name, parameters |-> parameters, returns |-> returns]
Domain(name, type_defs, commands, events) ==
    [name |-> name, type_defs |-> type_defs, commands |-> commands, events |-> events]

(***************************************************************************)
(* Schema compiler: generate_uses_lifetime_set                             *)
(***************************************************************************)
\* The node added first, whose weight is None.
string_index == [domain |-> <<>>, item |-> <<>>]

EmptyGraph == [nodes |-> {}, edges |-> {}]

\* item_index followed by add_edge(from, to): both ends become nodes.
AddEdge(graph, from, to) ==
    [nodes |-> graph.nodes \cup ({from, to} \ {string_index}),
     edges |-> graph.edges \cup {<<from, to>>}]

RECURSIVE traverse_type(_, _, _, _), traverse_fields(_, _, _, _)
traverse_type(domain_snake_case, parent_pascal_case, ty, graph) ==
    CASE ty.t = "String" ->
           AddEdge(graph, string_index,
                   fully_qualified_ident(domain_snake_case, parent_pascal_case))
      [] ty.t = "Reference" ->
           LET target_pascal_case == pascal_case_ident(TargetWords(ty.target))
           IN IF target_pascal_case # parent_pascal_case
              THEN AddEdge(graph,
                           resolve_reference(domain_snake_case, ty.target,
                                             target_pascal_case),
                           fully_qualified_ident(domain_snake_case, parent_pascal_case))
              ELSE graph
      [] ty.t = "Array" ->
           traverse_type(domain_snake_case, parent_pascal_case, ty.item, graph)
      [] ty.t = "Object" ->
           traverse_fields(domain_snake_case, parent_pascal_case, ty.fields, graph)
      [] OTHER -> graph

traverse_fields(domain_snake_case, parent_pascal_case, fields, graph) ==
    IF fields = <<>> THEN graph
    ELSE traverse_fields(domain_snake_case, parent_pascal_case, Tail(fields),
             traverse_type(domain_snake_case, parent_pascal_case,
                           Head(fields).ty, graph))

\* depth_first_search from string_index: every node discovered.
RECURSIVE Discover(_, _)
Discover(seen, edges) ==
    LET more == seen \cup {e[2] : e \in {x \in edges : x[1] \in seen}}
    IN IF more = seen THEN seen ELSE Discover(more, edges)

\* The items of the loops over the domains, in source order: per domain,
\* the commands, the events, then the type definitions.  An item names its
\* domain and its position in the domain's list.
MethodItems(d, kind, methods) ==
    [i \in 1..Len(methods) |-> [item |-> "method", kind |-> kind, d |-> d, i |-> i]]
TypeDefItems(d, type_defs) ==
    [i \in 1..Len(type_defs) |-> [item |-> "type_def", kind |-> "", d |-> d, i |-> i]]
DomainItems(ds, d) ==
    MethodItems(d, "Command", ds[d].commands) \o MethodItems(d, "Event", ds[d].events)
    \o TypeDefItems(d, ds[d].type_defs)
RECURSIVE ItemsFrom(_, _)
ItemsFrom(ds, d) ==
    IF d > Len(ds) THEN <<>> ELSE DomainItems(ds, d) \o ItemsFrom(ds, d + 1)
AllItems(ds) == ItemsFrom(ds, 1)

(***************************************************************************)
(* Schema compiler: the type emitter                                       *)
(*                                                                         *)
(* A type expression is a record: the primitive ones by name, a path to a  *)
(* named type with its lifetime argument and whether it is wrapped in Box. *)
(* Each operator returns what the function returns together with the      *)
(* declarations it pushes to type_defs, in push order.                     *)
(***************************************************************************)
Prim(name) == [e |-> name]
Path(ident, lifetime, boxed) ==
    [e |-> "path", ident |-> ident, lifetime |-> lifetime, boxed |-> boxed]
Emit(expr, uses_lifetime, type_defs) ==
    [expr |-> expr, uses_lifetime |-> uses_lifetime, type_defs |-> type_defs]

RECURSIVE generate_type_expr_impl(_, _, _, _, _), generate_type_expr(_, _, _, _, _),
          generate_fields(_, _, _, _)

\* The map over the fields of a struct, each through generate_field:
\* [fields, uses_lifetime, type_defs].
generate_fields(domain_snake_case, parent_pascal_case, fields, uses) ==
    IF fields = <<>> THEN [fields |-> <<>>, uses_lifetime |-> FALSE, type_defs |-> <<>>]
    ELSE LET field == Head(fields)
             ty == generate_type_expr(domain_snake_case, parent_pascal_case,
                                      Some(field.name), field.ty, uses)
             rest == generate_fields(domain_snake_case, parent_pascal_case,
                                     Tail(fields), uses)
         IN [fields |-> <<[name |-> snake_case_ident(field.name),
                           rename |-> field.name,
                           optional |-> field.optional,
                           ty |-> ty.expr]>> \o rest.fields,
             uses_lifetime |-> ty.uses_lifetime \/ rest.uses_lifetime,
             type_defs |-> ty.type_defs \o rest.type_defs]

generate_type_expr_impl(domain_snake_case, parent_pascal_case, field_name, ty, uses) ==
    CASE ty.t = "Reference" ->
           LET target_pascal_case == pascal_case_ident(TargetWords(ty.target))
               target_fully_qualified ==
                   resolve_reference(domain_snake_case, ty.target, target_pascal_case)
               target_uses_lifetime == target_fully_qualified \in uses
           IN Emit(Some(Path(target_fully_qualified, target_uses_lifetime,
                             target_pascal_case = parent_pascal_case)),
                   target_uses_lifetime, <<>>)
      [] ty.t = "Boolean" -> Emit(Some(Prim("bool")), FALSE, <<>>)
      [] ty.t = "Integer" -> Emit(Some(Prim("i32")), FALSE, <<>>)
      [] ty.t = "Number" -> Emit(Some(Prim("f64")), FALSE, <<>>)
      [] ty.t = "String" -> Emit(Some(Prim("Cow<'a, str>")), TRUE, <<>>)
      [] ty.t = "Enum" ->
           Emit(None, FALSE,
                <<[d |-> "enum",
                   ident |-> combine_parent_field_idents(parent_pascal_case, field_name),
                   values |-> ty.values,
                   variants |-> [i \in 1..Len(ty.values) |->
                                    pascal_case_ident(ty.values[i])]]>>)
      [] ty.t = "Array" ->
           LET item == generate_type_expr(domain_snake_case, parent_pascal_case,
                                          field_name, ty.item, uses)
           IN Emit(Some(IF ty.min_items # None /\ ty.min_items = ty.max_items
                        THEN [e |-> "array", item |-> item.expr, n |-> ty.max_items.v]
                        ELSE [e |-> "Vec", item |-> item.expr]),
                   item.uses_lifetime, item.type_defs)
      [] ty.t = "Object" ->
           IF ty.fields = <<>> THEN Emit(Some(Prim("Empty")), FALSE, <<>>)
           ELSE LET type_def_pascal_case ==
                        combine_parent_field_idents(parent_pascal_case, field_name)
                    fields == generate_fields(domain_snake_case, type_def_pascal_case,
                                              ty.fields, uses)
                IN Emit(None, fields.uses_lifetime,
                        fields.type_defs \o
                        <<[d |-> "struct", ident |-> type_def_pascal_case,
                           lifetime |-> fields.uses_lifetime,
                           fields |-> fields.fields]>>)
      [] ty.t = "Any" -> Emit(Some(Prim("Value")), FALSE, <<>>)

generate_type_expr(domain_snake_case, parent_pascal_case, field_name, ty, uses) ==
    LET r == generate_type_expr_impl(domain_snake_case, parent_pascal_case,
                                     field_name, ty, uses)
    IN IF r.expr # None THEN Emit(r.expr.v, r.uses_lifetime, r.type_defs)
       ELSE Emit(Path(fully_qualified_ident(domain_snake_case,
                          combine_parent_field_idents(parent_pascal_case, field_name)),
                      r.uses_lifetime, FALSE),
                 r.uses_lifetime, r.type_defs)

\* generate_type_def: the declarations pushed for one TypeDef.
generate_type_def(domain_snake_case, type_def, uses) ==
    LET type_def_pascal_case == pascal_case_ident(type_def.name)
        r == generate_type_expr_impl(domain_snake_case, type_def_pascal_case, None,
                                     type_def.ty, uses)
    IN IF r.expr = None THEN r.type_defs
       ELSE r.type_defs \o <<[d |-> "type", ident |-> type_def_pascal_case,
                              lifetime |-> r.uses_lifetime, expr |-> r.expr.v]>>

\* generate_method_struct: [uses_lifetime, type_defs].
generate_method_struct(domain_snake_case, struct_pascal_case, kind, method_qualified, fields, uses) ==
    LET fs == generate_fields(domain_snake_case, struct_pascal_case, fields, uses)
        lifetime == fields # <<>> /\ fs.uses_lifetime
        struct_def ==
            IF fields = <<>> THEN [d |-> "unit_struct", ident |-> struct_pascal_case]
            ELSE [d |-> "struct", ident |-> struct_pascal_case,
                  lifetime |-> fs.uses_lifetime, fields |-> fs.fields]
    IN [uses_lifetime |-> lifetime,
        type_defs |-> (IF fields = <<>> THEN <<>> ELSE fs.type_defs) \o
                      <<struct_def,
                        [d |-> "impl_name", ident |-> struct_pascal_case, kind |-> kind,
                         lifetime |-> lifetime, name |-> method_qualified]>>]

\* generate_method: the declarations pushed for one command or event.
generate_method(domain, domain_snake_case, kind, method, uses) ==
    LET method_qualified == [domain |-> domain.name, name |-> method.name]
        method_pascal_case == pascal_case_ident(method.name)
        request_pascal_case == method_pascal_case \o <<Up(kind)>>
        response_pascal_case == method_pascal_case \o <<Up("Response")>>
        request == generate_method_struct(domain_snake_case, request_pascal_case, kind,
                                          method_qualified, method.parameters, uses)
        response == generate_method_struct(domain_snake_case, response_pascal_case, kind,
                                           method_qualified, method.returns, uses)
    IN request.type_defs \o
       <<[d |-> "impl_serialize", ident |-> request_pascal_case,
          lifetime |-> request.uses_lifetime, name |-> method_qualified],
         [d |-> "impl_deserialize", ident |-> request_pascal_case,
          lifetime |-> request.uses_lifetime, name |-> method_qualified]>> \o
       (IF kind = "Command"
        THEN response.type_defs \o
             <<[d |-> "impl_has_response", ident |-> request_pascal_case,
                lifetime |-> request.uses_lifetime,
                response |-> response_pascal_case,
                response_lifetime |-> response.uses_lifetime],
               [d |-> "impl_has_request", ident |-> response_pascal_case,
                lifetime |-> response.uses_lifetime,
                request |-> request_pascal_case,
                request_lifetime |-> request.uses_lifetime]>>
        ELSE <<>>)

\* The declarations of one item, placed in the domain's module.
InModule(domain_snake_case, type_defs) ==
    [i \in 1..Len(type_defs) |-> [module |-> domain_snake_case, decl |-> type_defs[i]]]

\* ---- inputs of SpecGen ----
MaxDepth == 1

N_Foo == <<Up("foo")>>
N_BFoo == <<Up("b"), Up("foo")>>
N_Bar == <<Up("bar")>>
F_x == <<Lo("x")>>
F_y == <<Lo("y")>>
D_A == <<Up("a")>>
D_B == <<Up("b")>>

V_jpeg == <<Lo("jpeg")>>
V_png == <<Lo("png")>>
ScalarLeaves == {TBoolean, TInteger, TNumber, TEnum(<<V_jpeg, V_png>>), TAny}
Leaves ==
    ScalarLeaves \cup
    {TString, TReference(Local(N_Foo)), TReference(Local(N_Bar)),
     TReference(Qualified(Up("b"), N_Foo)), TReference(Qualified(Up("a"), N_Foo))}

RECURSIVE Types(_)
Types(depth) ==
    IF depth = 0 THEN Leaves
    ELSE LET inner == Types(depth - 1)
         IN Leaves \cup {TArray(t) : t \in inner}
                   \cup {TObject(<<Field(F_x, t)>>) : t \in inner}

MoreTypes ==
    {TObject(<<Field(F_x, TInteger), Field(F_y, TString)>>),
     TObject(<<Field(F_x, TString), Field(F_y, TInteger)>>),
     TObject(<<Field(F_x, TBoolean), Field(F_y, TEnum(<<V_jpeg, V_png>>))>>),
     TObject(<<OptionalField(F_x, TReference(Local(N_Foo)))>>),
     TObject(<<Field(F_x, TObject(<<Field(F_y, TReference(Local(N_Foo)))>>))>>),
     TObject(<<>>),
     TArrayN(TString, 2)}

MethodChoices ==
    {Method(<<Lo("foo")>>, <<Field(F_x, TString)>>, <<>>),
     Method(<<Lo("foo")>>, <<Field(F_x, TReference(Local(N_Foo)))>>,
            <<Field(F_y, TInteger)>>),
     Method(<<Lo("baz")>>, <<Field(F_x, TInteger)>>, <<Field(F_y, TString)>>),
     Method(<<Lo("baz")>>, <<>>, <<>>)}

Schemas ==
    {LET a == Domain(D_A,
                     <<TypeDef(n1, t1), TypeDef(N_Bar, t2)>>,
                     <<m>>, <<>>)
         b == Domain(D_B, <<TypeDef(N_Foo, tb)>>, <<>>,
                     <<Method(<<Lo("changed")>>, <<Field(F_x, TInteger)>>, <<>>)>>)
     IN IF aFirst THEN <<a, b>> ELSE <<b, a>> :
        n1 \in {N_Foo, N_BFoo},
        t1 \in Types(MaxDepth) \cup MoreTypes,
        t2 \in {TInteger, TReference(Local(N_Foo)), TReference(Local(N_BFoo))},
        m \in MethodChoices,
        tb \in {TInteger, TString},
        aFirst \in BOOLEAN}

InitGen ==
    /\ domains \in Schemas
    /\ genpc = "analyze"
    /\ work = AllItems(domains)
    /\ reference_graph = {}
    /\ item_indices = {}
    /\ uses_lifetime_set = {}
    /\ emitted = <<>>
    /\ ParseIdle /\ DispatchIdle /\ KindIdle /\ EnumIdle /\ DeprIdle /\ OutIdle /\ LoadIdle /\ CallIdle

Graph == [nodes |-> item_indices, edges |-> reference_graph]
MethodOf(domain, it) ==
    IF it.kind = "Command" THEN domain.commands[it.i] ELSE domain.events[it.i]

\* One iteration of the loop over a domain's commands and events.
TraverseMethod ==
    /\ genpc = "analyze" /\ work # <<>> /\ Head(work).item = "method"
    /\ LET domain == domains[Head(work).d]
           method == MethodOf(domain, Head(work))
           g == traverse_fields(snake_case_ident(domain.name),
                                pascal_case_ident(method.name),
                                method.parameters \o method.returns, Graph)
       IN reference_graph' = g.edges /\ item_indices' = g.nodes
    /\ work' = Tail(work)
    /\ UNCHANGED <<domains, genpc, uses_lifetime_set, emitted, notGen>>

\* One iteration of the loop over a domain's type definitions.
TraverseTypeDef ==
    /\ genpc = "analyze" /\ work # <<>> /\ Head(work).item = "type_def"
    /\ LET domain == domains[Head(work).d]
           type_def == domain.type_defs[Head(work).i]
           g == traverse_type(snake_case_ident(domain.name),
                              pascal_case_ident(type_def.name),
                              type_def.ty, Graph)
       IN reference_graph' = g.edges /\ item_indices' = g.nodes
    /\ work' = Tail(work)
    /\ UNCHANGED <<domains, genpc, uses_lifetime_set, emitted, notGen>>

\* The depth-first search that ends generate_uses_lifetime_set; the domains
\* are then generated in order.
DepthFirstSearch ==
    /\ genpc = "analyze" /\ work = <<>>
    /\ uses_lifetime_set' = Discover({string_index}, reference_graph) \ {string_index}
    /\ genpc' = "emit"
    /\ work' = AllItems(domains)
    /\ UNCHANGED <<domains, reference_graph, item_indices, emitted, notGen>>

\* generate_method for the next command or event of generate_domain.
EmitMethod ==
    /\ genpc = "emit" /\ work # <<>> /\ Head(work).item = "method"
    /\ LET domain == domains[Head(work).d]
           module == snake_case_ident(domain.name)
       IN emitted' = emitted \o
              InModule(module,
                       generate_method(domain, module, Head(work).kind,
                                       MethodOf(domain, Head(work)),
                                       uses_lifetime_set))
    /\ work' = Tail(work)
    /\ genpc' = IF Tail(work) = <<>> THEN "done" ELSE "emit"
    /\ UNCHANGED <<domains, reference_graph, item_indices, uses_lifetime_set,
                   notGen>>

\* generate_type_def for the next type definition of generate_domain.
EmitTypeDef ==
    /\ genpc = "emit" /\ work # <<>> /\ Head(work).item = "type_def"
    /\ LET domain == domains[Head(work).d]
           module == snake_case_ident(domain.name)
       IN emitted' = emitted \o
              InModule(module,
                       generate_type_def(module, domain.type_defs[Head(work).i],
                                         uses_lifetime_set))
    /\ work' = Tail(work)
    /\ genpc' = IF Tail(work) = <<>> THEN "done" ELSE "emit"
    /\ UNCHANGED <<domains, reference_graph, item_indices, uses_lifetime_set,
                   notGen>>

NextGen == TraverseMethod \/ TraverseTypeDef \/ DepthFirstSearch \/ EmitMethod \/ EmitTypeDef

SpecGen == InitGen /\ [][NextGen]_vars

(***************************************************************************)
(* Error kinds: CdpErrorKind and JsonCdpErrorKind and their i32 codes      *)
(***************************************************************************)
Kind(name) == [k |-> name]
Other(code) == [k |-> "Other", v |-> code]

\* A slip that exchanges two of the codes.
CdpErrorKind_from_swapped(code) ==
    CASE code = 0 - 32700 -> Kind("ParseError")
      [] code = 0 - 32600 -> Kind("InvalidRequest")
      [] code = 0 - 32601 -> Kind("InvalidParams")
      [] code = 0 - 32602 -> Kind("MethodNotFound")
      [] code = 0 - 32603 -> Kind("InternalError")
      [] code = 0 - 32000 -> Kind("ServerError")
      [] OTHER -> Other(code)

\* impl From<i32> for CdpErrorKind
CdpErrorKind_from(code) ==
    CASE code = 0 - 32700 -> Kind("ParseError")
      [] code = 0 - 32600 -> Kind("InvalidRequest")
      [] code = 0 - 32601 -> Kind("MethodNotFound")
      [] code = 0 - 32602 -> Kind("InvalidParams")
      [] code = 0 - 32603 -> Kind("InternalError")
      [] code = 0 - 32000 -> Kind("ServerError")
      [] OTHER -> Other(code)

\* impl From<CdpErrorKind> for i32
i32_from_CdpErrorKind(kind) ==
    CASE kind.k = "ParseError" -> 0 - 32700
      [] kind.k = "InvalidRequest" -> 0 - 32600
      [] kind.k = "MethodNotFound" -> 0 - 32601
      [] kind.k = "InvalidParams" -> 0 - 32602
      [] kind.k = "InternalError" -> 0 - 32603
      [] kind.k = "ServerError" -> 0 - 32000
      [] kind.k = "Other" -> kind.v

\* impl From<i32> for JsonCdpErrorKind
JsonCdpErrorKind_from(code) ==
    CASE code = 0 - 32700 -> Kind("ParseError")
      [] code = 0 - 32600 -> Kind("InvalidRequest")
      [] code = 0 - 32601 -> Kind("MethodNotFound")
      [] code = 0 - 32602 -> Kind("InvalidParams")
      [] code = 0 - 32603 -> Kind("InternalError")
      [] code = 0 - 32000 -> Kind("ServerError")
      [] OTHER -> Other(code)

\* impl From<JsonCdpErrorKind> for i32
i32_from_JsonCdpErrorKind(kind) ==
    CASE kind.k = "ParseError" -> 0 - 32700
      [] kind.k = "InvalidRequest" -> 0 - 32600
      [] kind.k = "MethodNotFound" -> 0 - 32601
      [] kind.k = "InvalidParams" -> 0 - 32602
      [] kind.k = "InternalError" -> 0 - 32603
      [] kind.k = "ServerError" -> 0 - 32000
      [] kind.k = "Other" -> kind.v

\* Equality as a derived PartialEq would define it: variant by variant.
CdpErrorKind_eq_derived(self, other) == self = other

\* impl PartialEq for CdpErrorKind
CdpErrorKind_eq(self, other) ==
    i32_from_CdpErrorKind(self) = i32_from_CdpErrorKind(other)

\* impl PartialEq for JsonCdpErrorKind
JsonCdpErrorKind_eq(self, other) ==
    i32_from_JsonCdpErrorKind(self) = i32_from_JsonCdpErrorKind(other)

\* ---- inputs of SpecKind ----
MaxCode == 3
I32Min == (0 - 2147483647) - 1
I32Max == 2147483647
NamedKinds ==
    {Kind("ParseError"), Kind("InvalidRequest"), Kind("MethodNotFound"),
     Kind("InvalidParams"), Kind("InternalError"), Kind("ServerError")}
NamedCodes == {i32_from_CdpErrorKind(kind) : kind \in NamedKinds}
Codes == NamedCodes \cup ((0 - MaxCode)..MaxCode) \cup {I32Min, I32Max}
Kinds == NamedKinds \cup {Other(code) : code \in Codes}

AKind(kind) == [k |-> "kind", v |-> kind]
ACode(code) == [k |-> "code", v |-> code]

\* A value to convert, by one of the two implementations; mid and back are
\* filled by the two conversions made one after the other.  A kind comes
\* with a second kind to compare it with; eq is filled by the comparisons.
InitKind ==
    /\ kindConv \in {[impl |-> i, src |-> AKind(kind), other |-> Some(other),
                      mid |-> None, back |-> None, eq |-> None] :
                        i \in {"cdp", "json"}, kind \in Kinds, other \in Kinds}
                    \cup {[impl |-> i, src |-> ACode(code), other |-> None,
                           mid |-> None, back |-> None, eq |-> None] :
                            i \in {"cdp", "json"}, code \in Codes}
    /\ ParseIdle /\ DispatchIdle /\ GenIdle /\ EnumIdle /\ DeprIdle /\ OutIdle /\ LoadIdle /\ CallIdle

\* The next value to convert: the source, then the first conversion's result.
KindPending ==
    IF kindConv.mid = None THEN kindConv.src
    ELSE IF kindConv.back = None THEN kindConv.mid.v
    ELSE Idle
KindStore(value) ==
    IF kindConv.mid = None THEN [kindConv EXCEPT !.mid = Some(value)]
    ELSE [kindConv EXCEPT !.back = Some(value)]

\* i32::from(kind)
IntoCode ==
    /\ KindPending # Idle /\ KindPending.k = "kind"
    /\ kindConv' = KindStore(ACode(IF kindConv.impl = "cdp"
                                   THEN i32_from_CdpErrorKind(KindPending.v)
                                   ELSE i32_from_JsonCdpErrorKind(KindPending.v)))
    /\ UNCHANGED notKind

\* CdpErrorKind::from(code) / JsonCdpErrorKind::from(code)
FromCode ==
    /\ KindPending # Idle /\ KindPending.k = "code"
    /\ kindConv' = KindStore(AKind(IF kindConv.impl = "cdp"
                                   THEN CdpErrorKind_from(KindPending.v)
                                   ELSE JsonCdpErrorKind_from(KindPending.v)))
    /\ UNCHANGED notKind

\* kind == other and kind == Kind::from(i32::from(kind)), once the kind has
\* made the round trip.
CompareKinds ==
    /\ kindConv.back # None /\ kindConv.src.k = "kind" /\ kindConv.eq = None
    /\ LET kind == kindConv.src.v
           back == kindConv.back.v.v
           other == kindConv.other.v
       IN kindConv' =
              [kindConv EXCEPT !.eq =
                  Some(IF kindConv.impl = "cdp"
                       THEN [other |-> CdpErrorKind_eq(kind, other),
                             back |-> CdpErrorKind_eq(kind, back)]
                       ELSE [other |-> JsonCdpErrorKind_eq(kind, other),
                             back |-> JsonCdpErrorKind_eq(kind, back)])]
    /\ UNCHANGED notKind

NextKind == IntoCode \/ FromCode \/ CompareKinds

SpecKind == InitKind /\ [][NextKind]_vars

(***************************************************************************)
(* A generated enum at run time: FromStr and Display                       *)
(*                                                                         *)
(* The declaration lists the wire strings (STR_VALUES) and, at the same    *)
(* positions, the variants; parse_arms and fmt_arms pair them up in that   *)
(* order.  A match takes its first arm that applies.                       *)
(***************************************************************************)
ParseEnumError(expected, actual) ==
    [k |-> "Err", v |-> [expected |-> expected, actual |-> actual]]
EnumOk(variant) == [k |-> "Ok", v |-> variant]

\* The first position of x in the sequence q, 0 when absent.
RECURSIVE FirstIndex(_, _, _)
FirstIndex(q, x, i) ==
    IF i > Len(q) THEN 0
    ELSE IF q[i] = x THEN i
    ELSE FirstIndex(q, x, i + 1)

\* A slip that matches the input against the variant names.
from_str_byVariant(def, s) ==
    LET i == FirstIndex(def.variants, pascal_case_ident(s), 1)
    IN IF i # 0 THEN EnumOk(def.variants[i])
       ELSE ParseEnumError(def.values, s)

\* impl FromStr: match s { value => Ok(ctor), ..., _ => Err(ParseEnumError) }
from_str(def, s) ==
    LET i == FirstIndex(def.values, s, 1)
    IN IF i # 0 THEN EnumOk(def.variants[i])
       ELSE ParseEnumError(def.values, s)

\* A slip that writes the variant's name instead of its wire string.
fmt_variantName(def, variant) == variant

\* impl Display: match *self { ctor => value, ... }
fmt(def, variant) == def.values[FirstIndex(def.variants, variant, 1)]

\* The Rust compiler accepts an enum only if its variant names differ.
EnumCompiles(def) ==
    \A i, j \in 1..Len(def.variants) : def.variants[i] = def.variants[j] => i = j

\* ---- inputs of SpecEnum ----
MaxValues == 3
V_Jpeg == <<Up("jpeg")>>
V_fooBar == <<Lo("foo"), Up("bar")>>
V_foo == <<Lo("foo")>>
ValueChoices == {V_jpeg, V_png, V_Jpeg, V_fooBar}
EnumInputs == ValueChoices \cup {V_foo, <<>>}

\* The declaration the compiler emits for a type definition that is an enum.
InitEnum ==
    /\ enumDef \in
          {generate_type_expr_impl(snake_case_ident(D_A), pascal_case_ident(N_Foo),
                                   None, TEnum(values), {}).type_defs[1] :
              values \in SeqsUpTo(ValueChoices, MaxValues)}
    /\ enumCall = Idle
    /\ ParseIdle /\ DispatchIdle /\ GenIdle /\ KindIdle /\ DeprIdle /\ OutIdle /\ LoadIdle /\ CallIdle

\* s.parse::<Enum>()
FromStr ==
    /\ EnumCompiles(enumDef)
    /\ \E s \in EnumInputs :
          enumCall' = [s |-> s, parsed |-> from_str(enumDef, s), shown |-> None]
    /\ UNCHANGED <<enumDef, notEnum>>

\* variant.to_string() on the parsed variant
Display ==
    /\ enumCall # Idle /\ enumCall.parsed.k = "Ok" /\ enumCall.shown = None
    /\ enumCall' = [enumCall EXCEPT !.shown = Some(fmt(enumDef, enumCall.parsed.v))]
    /\ UNCHANGED <<enumDef, notEnum>>

NextEnum == FromStr \/ Display

SpecEnum == InitEnum /\ [][NextEnum]_vars

(***************************************************************************)
(* Deprecation metadata: DeprecationStatus                                 *)
(*                                                                         *)
(* A description is a sequence of pieces of text.  The pieces that matter  *)
(* to the regular expressions are kept apart: the prefix "Deprecated, ",   *)
(* the whole sentence "Deprecated.", a lower-case mention of deprecation,  *)
(* the markdown hazard "(", and the backslash the escaping puts before a   *)
(* hazard.                                                                 *)
(***************************************************************************)
T_prefix == "Deprecated, "
T_sentence == "Deprecated."
T_mention == "is deprecated"
T_use == "use"
T_x == "x"
T_hazard == "("
T_backslash == "<backslash>"

NotDeprecated == [k |-> "NotDeprecated"]
Deprecated == [k |-> "Deprecated"]
DeprecatedWithWarning(text) == [k |-> "DeprecatedWithWarning", v |-> text]
DeprecatedWithWarningFromParent(text) ==
    [k |-> "DeprecatedWithWarningFromParent", v |-> text]

\* DEPRECATION_WARNING_RE, (?i)deprecat, finds a match somewhere in desc.
DEPRECATION_WARNING_RE_is_match(desc) ==
    \E i \in 1..Len(desc) : desc[i] \in {T_prefix, T_sentence, T_mention}

\* DEPRECATION_PREFIX_RE.replace(desc, ""): ^Deprecated, is removed.
DEPRECATION_PREFIX_RE_replace(desc) ==
    IF desc # <<>> /\ Head(desc) = T_prefix THEN Tail(desc) ELSE desc

\* MARKDOWN_HAZARD_RE.replace_all(src, "\\$0"): a backslash before each of
\* the characters * [ ] ( ).
RECURSIVE escape_for_markdown(_)
escape_for_markdown(src) ==
    IF src = <<>> THEN <<>>
    ELSE (IF Head(src) = T_hazard THEN <<T_backslash, T_hazard>> ELSE <<Head(src)>>)
         \o escape_for_markdown(Tail(src))

\* A slip that leaves the prefix in the warning.
DeprecationStatus_new_keepPrefix(deprecated, description) ==
    IF ~deprecated THEN NotDeprecated
    ELSE LET warning ==
                 IF description = None THEN None
                 ELSE IF description.v = <<T_sentence>>
                         \/ ~DEPRECATION_WARNING_RE_is_match(description.v)
                      THEN None
                      ELSE Some(escape_for_markdown(description.v))
         IN IF warning = None THEN Deprecated
            ELSE DeprecatedWithWarning(warning.v)

\* DeprecationStatus::new
DeprecationStatus_new(deprecated, description) ==
    IF ~deprecated THEN NotDeprecated
    ELSE LET warning ==
                 IF description = None THEN None
                 ELSE IF description.v = <<T_sentence>>
                         \/ ~DEPRECATION_WARNING_RE_is_match(description.v)
                      THEN None
                      ELSE Some(escape_for_markdown(
                                    DEPRECATION_PREFIX_RE_replace(description.v)))
         IN IF warning = None THEN Deprecated
            ELSE DeprecatedWithWarning(warning.v)

is_deprecated(status) == status.k # "NotDeprecated"
has_own_warning(status) == status.k = "DeprecatedWithWarning"
warning(status) ==
    IF status.k \in {"DeprecatedWithWarning", "DeprecatedWithWarningFromParent"}
    THEN Some(status.v) ELSE None

\* A slip that leaves a node without the deprecated flag as it is.
add_parent_flaggedOnly(self, parent) ==
    IF ~is_deprecated(parent) \/ has_own_warning(self) \/ ~is_deprecated(self) THEN self
    ELSE IF warning(parent) = None THEN Deprecated
    ELSE DeprecatedWithWarningFromParent(warning(parent).v)

\* A slip that never hands the parent's text down.
add_parent_noText(self, parent) ==
    IF ~is_deprecated(parent) \/ has_own_warning(self) THEN self
    ELSE Deprecated

\* DeprecationStatus::add_parent
add_parent(self, parent) ==
    IF ~is_deprecated(parent) \/ has_own_warning(self) THEN self
    ELSE IF warning(parent) = None THEN Deprecated
    ELSE DeprecatedWithWarningFromParent(warning(parent).v)

\* ---- inputs of SpecDepr ----
Descriptions ==
    {None,
     Some(<<T_sentence>>),
     Some(<<T_prefix, T_use, T_x>>),
     Some(<<T_use, T_x>>),
     Some(<<T_x, T_mention, T_hazard, T_use, T_x>>),
     Some(<<T_use, T_prefix>>)}
Node(deprecated, description) == [deprecated |-> deprecated, description |-> description]
Nodes == {Node(deprecated, description) :
             deprecated \in BOOLEAN, description \in Descriptions}

\* A domain, one of its type definitions or methods, and one field of that
\* item, each with its own deprecated flag and description.
InitDepr ==
    /\ deprNodes \in [domain : Nodes, item : Nodes, field : Nodes]
    /\ deprStatus = [domain |-> Idle, item |-> Idle, field |-> Idle]
    /\ ParseIdle /\ DispatchIdle /\ GenIdle /\ KindIdle /\ EnumIdle /\ OutIdle /\ LoadIdle /\ CallIdle

\* generate_domain: the status of the domain.
GenerateDomainStatus ==
    /\ deprStatus.domain = Idle
    /\ deprStatus' = [deprStatus EXCEPT !.domain =
          DeprecationStatus_new(deprNodes.domain.deprecated,
                                deprNodes.domain.description)]
    /\ UNCHANGED <<deprNodes, notDepr>>

\* generate_type_def / generate_method: the item's own status with the
\* domain's added as parent.
GenerateItemStatus ==
    /\ deprStatus.domain # Idle /\ deprStatus.item = Idle
    /\ deprStatus' = [deprStatus EXCEPT !.item =
          add_parent(DeprecationStatus_new(deprNodes.item.deprecated,
                                           deprNodes.item.description),
                     deprStatus.domain)]
    /\ UNCHANGED <<deprNodes, notDepr>>

\* generate_field: the field's status is made from the field alone; the
\* parent's status goes to the types nested in the field.
GenerateFieldStatus ==
    /\ deprStatus.item # Idle /\ deprStatus.field = Idle
    /\ deprStatus' = [deprStatus EXCEPT !.field =
          DeprecationStatus_new(deprNodes.field.deprecated,
                                deprNodes.field.description)]
    /\ UNCHANGED <<deprNodes, notDepr>>

NextDepr == GenerateDomainStatus \/ GenerateItemStatus \/ GenerateFieldStatus

SpecDepr == InitDepr /\ [][NextDepr]_vars

(***************************************************************************)
(* Outgoing messages: CdpOutgoing, JsonCdpOutgoing and the websocket       *)
(* ServerMessage, serialised to a JSON object and deserialised from one.   *)
(***************************************************************************)
CdpError(kind, message, data) == [kind |-> kind, message |-> message, data |-> data]
method_not_found(method) == CdpError(Kind("MethodNotFound"), "'" \o method \o "' wasn't found", None)
invalid_params(message) == CdpError(Kind("InvalidParams"), "Invalid parameters", Some(JStr(message)))

\* The messages: Result / Response, Event, Error.
OutResult(id, result) == [k |-> "Result", v |-> [id |-> id, result |-> result]]
ROk(response) == [k |-> "Ok", v |-> response]
RErr(error) == [k |-> "Err", v |-> error]
OutEvent(name, params) == [k |-> "Event", v |-> [name |-> name, params |-> params]]
OutError(error) == [k |-> "Error", v |-> error]

\* An i32 as a JSON number.
JInt(n) == IF n >= 0 THEN JUint(n) ELSE JNint(n)

\* derive(Serialize) of the error: code, message, and data unless None.
CdpError_serialize(error) ==
    JObj(IF error.data = None
         THEN [code |-> JInt(i32_from_CdpErrorKind(error.kind)),
               message |-> JStr(error.message)]
         ELSE [code |-> JInt(i32_from_CdpErrorKind(error.kind)),
               message |-> JStr(error.message),
               data |-> error.data.v])

\* derive(Deserialize) of the error: an object with an i32 code and a
\* string message; data is optional and null counts as absent.
CdpError_deserialize(value) ==
    IF /\ value.k = "obj"
       /\ "code" \in DOMAIN value.v /\ value.v["code"].k \in {"uint", "nint"}
       /\ value.v["code"].v >= I32Min /\ value.v["code"].v <= I32Max
       /\ "message" \in DOMAIN value.v /\ value.v["message"].k = "str"
    THEN Some(CdpError(CdpErrorKind_from(value.v["code"].v),
                       value.v["message"].v,
                       IF "data" \in DOMAIN value.v /\ value.v["data"] # JNull
                       THEN Some(value.v["data"]) ELSE None))
    ELSE None

serialize_response(id, response) == JObj([id |-> JUint(id), result |-> JObj(response)])

\* A slip that leaves the id out of a failure result.
serialize_error_noId(maybe_id, error) == JObj([error |-> CdpError_serialize(error)])

serialize_error(maybe_id, error) ==
    IF maybe_id # None
    THEN JObj([id |-> JUint(maybe_id.v), error |-> CdpError_serialize(error)])
    ELSE JObj([error |-> CdpError_serialize(error)])

serialize_result(id, result) ==
    IF result.k = "Ok" THEN serialize_response(id, result.v)
    ELSE serialize_error(Some(id), result.v)

serialize_event(name, params) == JObj([method |-> JStr(name), params |-> JObj(params)])

\* Serialize for CdpOutgoing and JsonCdpOutgoing; ServerMessageImpl::from
\* followed by the derived untagged Serialize gives the same for the
\* websocket messages.
CdpOutgoing_serialize(message) ==
    CASE message.k = "Result" -> serialize_result(message.v.id, message.v.result)
      [] message.k = "Event" -> serialize_event(message.v.name, message.v.params)
      [] message.k = "Error" -> serialize_error(None, message.v)

\* The event names the generated websocket Event enum knows.
EventNames == {"Page.fired"}

\* One variant of the untagged enum tried on an object: Some(message) when
\* every member the variant names is there and deserialises; members the
\* variant does not name are ignored.
TryVariant(outImpl, variant, o) ==
    LET has_id == "id" \in DOMAIN o /\ as_u64(o["id"]) # None
        error == IF "error" \in DOMAIN o THEN CdpError_deserialize(o["error"]) ELSE None
    IN CASE variant = "CommandSuccess" ->
              IF /\ has_id /\ "result" \in DOMAIN o
                 /\ (outImpl = "ws" \/ o["result"].k = "obj")
              THEN Some(OutResult(o["id"].v,
                                  ROk(IF o["result"].k = "obj" THEN o["result"].v
                                      ELSE o["result"])))
              ELSE None
         [] variant = "CommandFailure" ->
              IF has_id /\ error # None
              THEN Some(OutResult(o["id"].v, RErr(error.v))) ELSE None
         [] variant = "GeneralFailure" ->
              IF error # None THEN Some(OutError(error.v)) ELSE None
         [] variant = "Event" ->
              IF /\ "method" \in DOMAIN o /\ o["method"].k = "str"
                 /\ (outImpl = "ws" => o["method"].v \in EventNames)
                 /\ "params" \in DOMAIN o /\ o["params"].k = "obj"
              THEN Some(OutEvent(o["method"].v, o["params"].v))
              ELSE None

\* The variants in the order they are declared, which is the order the
\* untagged deserialiser tries them in.
VariantOrder(outImpl) ==
    IF outImpl = "ws"
    THEN <<"GeneralFailure", "CommandSuccess", "CommandFailure", "Event">>
    ELSE <<"CommandSuccess", "CommandFailure", "GeneralFailure", "Event">>

RECURSIVE FirstVariant(_, _, _)
FirstVariant(outImpl, order, o) ==
    IF order = <<>> THEN [k |-> "Err"]
    ELSE LET tried == TryVariant(outImpl, Head(order), o)
         IN IF tried # None THEN [k |-> "Ok", v |-> tried.v]
            ELSE FirstVariant(outImpl, Tail(order), o)

\* Deserialize for CdpOutgoing, JsonCdpOutgoing and OwnedServerMessage.
CdpOutgoing_deserialize(outImpl, value) ==
    IF value.k = "obj" THEN FirstVariant(outImpl, VariantOrder(outImpl), value.v)
    ELSE [k |-> "Err"]

\* ---- inputs of SpecOut ----
OutImpls == {"cdp", "json", "ws"}
OutErrors ==
    {method_not_found("Foo.bar"), invalid_params("x"), CdpError(Other(1), "m", None)}
OutMaps == {EmptyMap, Map1("frameId", JStr("0"))}
OutIds == 1..MaxId
OutMessages ==
    {OutResult(id, ROk(r)) : id \in OutIds, r \in OutMaps}
    \cup {OutResult(id, RErr(e)) : id \in OutIds, e \in OutErrors}
    \cup {OutEvent("Page.fired", q) : q \in OutMaps}
    \cup {OutError(e) : e \in OutErrors}
OutCall(fn, args) == [k |-> fn, v |-> args]
\* Serialize::serialize on a message, and the four associated functions.
OutCalls ==
    {OutCall("serialize", m) : m \in OutMessages}
    \cup {OutCall("serialize_result", [id |-> id, result |-> ROk(r)]) :
              id \in OutIds, r \in OutMaps}
    \cup {OutCall("serialize_result", [id |-> id, result |-> RErr(e)]) :
              id \in OutIds, e \in OutErrors}
    \cup {OutCall("serialize_response", [id |-> id, response |-> r]) :
              id \in OutIds, r \in OutMaps}
    \cup {OutCall("serialize_error", [maybe_id |-> i, error |-> e]) :
              i \in {None} \cup {Some(id) : id \in OutIds}, e \in OutErrors}
    \cup {OutCall("serialize_event", [name |-> "Page.fired", params |-> q]) :
              q \in OutMaps}
\* Objects that arrive from elsewhere, with any of the five members.
WireKeys == {"id", "result", "error", "method", "params"}
WireMember(key) ==
    CASE key = "id" -> {JUint(1), JStr("1")}
      [] key = "result" -> {JObj(EmptyMap)}
      [] key = "error" -> {CdpError_serialize(method_not_found("Foo.bar"))}
      [] key = "method" -> {JStr("Page.fired")}
      [] key = "params" -> {JObj(EmptyMap)}
WireInputs ==
    UNION {{JObj(o) : o \in {f \in [ks -> UNION {WireMember(key) : key \in ks}] :
                                \A key \in ks : f[key] \in WireMember(key)}} :
              ks \in SUBSET WireKeys}

InitOut ==
    /\ \/ /\ outCall \in {x \in [outImpl : OutImpls, call : OutCalls] :
                             x.outImpl = "ws" => x.call.k = "serialize"}
          /\ wire = Idle
       \/ /\ outCall \in {[outImpl |-> i, call |-> None] : i \in OutImpls}
          /\ wire \in WireInputs
    /\ received = Idle
    /\ ParseIdle /\ DispatchIdle /\ GenIdle /\ KindIdle /\ EnumIdle /\ DeprIdle
    /\ LoadIdle /\ CallIdle

\* One of the serialisation entry points writes the message.
SerializeOutgoing ==
    /\ wire = Idle /\ outCall.call # None
    /\ LET call == outCall.call
       IN wire' =
            CASE call.k = "serialize" -> CdpOutgoing_serialize(call.v)
              [] call.k = "serialize_result" -> serialize_result(call.v.id, call.v.result)
              [] call.k = "serialize_response" ->
                    serialize_response(call.v.id, call.v.response)
              [] call.k = "serialize_error" ->
                    serialize_error(call.v.maybe_id, call.v.error)
              [] call.k = "serialize_event" -> serialize_event(call.v.name, call.v.params)
    /\ UNCHANGED <<outCall, received, notOut>>

\* The peer deserialises what is on the wire.
DeserializeOutgoing ==
    /\ wire # Idle /\ received = Idle
    /\ received' = CdpOutgoing_deserialize(outCall.outImpl, wire)
    /\ UNCHANGED <<outCall, wire, notOut>>

NextOut == SerializeOutgoing \/ DeserializeOutgoing

SpecOut == InitOut /\ [][NextOut]_vars

(***************************************************************************)
(* The generator's main: the two protocol files are read, their versions   *)
(* compared, and only then is anything generated and written.  There are   *)
(* two of them: cdp/src/generate.rs writes generated.rs, the older         *)
(* src/generate.rs writes constants.rs and then ws_generated.rs.           *)
(***************************************************************************)
Version(major, minor) == [major |-> major, minor |-> minor]
Definition(version, names) == [k |-> "definition", version |-> version, domains |-> names]

\* A slip that compares the major numbers only.
Version_eq_majorOnly(a, b) == a.major = b.major

\* derive(PartialEq) for Version: both strings.
Version_eq(a, b) == a.major = b.major /\ a.minor = b.minor

\* serde_json::from_str(..).expect(..) / read_protocol_file: the definition,
\* or a panic on a file that does not parse.
read_protocol_file(file) ==
    IF file = Malformed THEN [k |-> "panic"] ELSE [k |-> "ok", v |-> file]

Written(file, version, names) == [file |-> file, version |-> version, domains |-> names]

\* ---- inputs of SpecLoad ----
Versions == {Version("1", "2"), Version("1", "3"), Version("2", "2")}
ProtocolFiles ==
    {Malformed} \cup {Definition(v, names) : v \in Versions, names \in {<<"Page">>, <<>>}}

InitLoad ==
    /\ loader \in {[main |-> g, browser |-> b, js |-> j, pc |-> "read_browser",
                    browser_protocol |-> None, js_protocol |-> None, written |-> <<>>] :
                      g \in {"cdp", "ws"}, b \in ProtocolFiles, j \in ProtocolFiles}
    /\ ParseIdle /\ DispatchIdle /\ GenIdle /\ KindIdle /\ EnumIdle /\ DeprIdle
    /\ OutIdle /\ CallIdle

ReadBrowserProtocol ==
    /\ loader.pc = "read_browser"
    /\ LET r == read_protocol_file(loader.browser)
       IN loader' = IF r.k = "panic" THEN [loader EXCEPT !.pc = "panic"]
                    ELSE [loader EXCEPT !.pc = "read_js", !.browser_protocol = Some(r.v)]
    /\ UNCHANGED notLoad

ReadJsProtocol ==
    /\ loader.pc = "read_js"
    /\ LET r == read_protocol_file(loader.js)
       IN loader' = IF r.k = "panic" THEN [loader EXCEPT !.pc = "panic"]
                    ELSE [loader EXCEPT !.pc = "compare", !.js_protocol = Some(r.v)]
    /\ UNCHANGED notLoad

\* if browser_protocol.version != js_protocol.version { panic!(..) }
CompareVersions ==
    /\ loader.pc = "compare"
    /\ loader' = IF ~Version_eq(loader.browser_protocol.v.version,
                                loader.js_protocol.v.version)
                 THEN [loader EXCEPT !.pc = "panic"]
                 ELSE [loader EXCEPT !.pc = "generate"]
    /\ UNCHANGED notLoad

\* The first file main writes: generated.rs from the domains of both files
\* (cdp), or constants.rs from the version (ws).
WriteFirst ==
    /\ loader.pc = "generate"
    /\ LET b == loader.browser_protocol.v
           j == loader.js_protocol.v
       IN loader' =
            IF loader.main = "cdp"
            THEN [loader EXCEPT !.pc = "done",
                     !.written = Append(@, Written("generated.rs", b.version,
                                                   b.domains \o j.domains))]
            ELSE [loader EXCEPT !.pc = "generate_ws",
                     !.written = Append(@, Written("constants.rs", b.version, <<>>))]
    /\ UNCHANGED notLoad

\* ws_generated.rs, from the domains of both files.
WriteWs ==
    /\ loader.pc = "generate_ws"
    /\ LET b == loader.browser_protocol.v
           j == loader.js_protocol.v
       IN loader' = [loader EXCEPT !.pc = "done",
                        !.written = Append(@, Written("ws_generated.rs", b.version,
                                                      b.domains \o j.domains))]
    /\ UNCHANGED notLoad

NextLoad == ReadBrowserProtocol \/ ReadJsProtocol \/ CompareVersions \/ WriteFirst \/ WriteWs

SpecLoad == InitLoad /\ [][NextLoad]_vars

(***************************************************************************)
(* Schema compiler: properties                                             *)
(***************************************************************************)
Analyzed == genpc \in {"emit", "done"}

\* The type definitions of the schema, each with the index of its domain.
SchemaTypeDefs ==
    {[d |-> d, i |-> i] : d \in 1..Len(domains), i \in 1..2} \cap
    UNION {{[d |-> d, i |-> i] : i \in 1..Len(domains[d].type_defs)} :
              d \in 1..Len(domains)}
SchemaMethods ==
    UNION {{[d |-> d, m |-> domains[d].commands[i]] : i \in 1..Len(domains[d].commands)}
           \cup {[d |-> d, m |-> domains[d].events[i]] : i \in 1..Len(domains[d].events)} :
              d \in 1..Len(domains)}
DefOf(td) == domains[td.d].type_defs[td.i]
\* The identifier a type definition is generated under.
IdentOf(td) ==
    fully_qualified_ident(snake_case_ident(domains[td.d].name),
                          pascal_case_ident(DefOf(td).name))
MethodNode(sm) ==
    fully_qualified_ident(snake_case_ident(domains[sm.d].name),
                          pascal_case_ident(sm.m.name))

\* The type definitions a reference made in domain d denotes: those of the
\* named domain (d itself for an unqualified target) generated under the
\* target's name.
Denotes(d, target) ==
    {td \in SchemaTypeDefs :
        /\ snake_case_ident(domains[td.d].name) =
              IF target.domain = None THEN snake_case_ident(domains[d].name)
              ELSE snake_case_ident(<<target.domain.v>>)
        /\ pascal_case_ident(DefOf(td).name) = pascal_case_ident(target.name)}

\* The leaves of a type: what remains after going through arrays and
\* anonymous nested objects.
RECURSIVE LeavesOf(_)
LeavesOf(ty) ==
    CASE ty.t = "Array" -> LeavesOf(ty.item)
      [] ty.t = "Object" -> UNION {LeavesOf(ty.fields[i].ty) : i \in 1..Len(ty.fields)}
      [] OTHER -> {ty}
MethodLeaves(m) ==
    UNION {LeavesOf(f.ty) : f \in {m.parameters[i] : i \in 1..Len(m.parameters)}
                                  \cup {m.returns[i] : i \in 1..Len(m.returns)}}

HasStringLeaf(leaves) == TString \in leaves
RefersInto(d, leaves, S) ==
    \E leaf \in leaves : leaf.t = "Reference" /\ Denotes(d, leaf.target) \cap S # {}

\* The type definitions that contain a String directly, through arrays or
\* nested objects, or through a chain of references.
RECURSIVE StringBearing(_)
StringBearing(S) ==
    LET more == S \cup {td \in SchemaTypeDefs :
                           \/ HasStringLeaf(LeavesOf(DefOf(td).ty))
                           \/ RefersInto(td.d, LeavesOf(DefOf(td).ty), S)}
    IN IF more = S THEN S ELSE StringBearing(more)

\* C8: every generated named type that contains a String field, directly,
\* through arrays or anonymous nested objects, or through a chain of
\* references to other named types, is in the borrows set.  The set is
\* keyed by type definition and by method: arrays and nested objects keep
\* the identity of the item that encloses them.
C8_StringBorrows ==
    Analyzed =>
        /\ \A td \in StringBearing({}) : IdentOf(td) \in uses_lifetime_set
        /\ \A sm \in SchemaMethods :
              (\/ HasStringLeaf(MethodLeaves(sm.m))
               \/ RefersInto(sm.d, MethodLeaves(sm.m), StringBearing({})))
              => MethodNode(sm) \in uses_lifetime_set

\* Only Boolean, Integer, Number or Enum fields.
IsScalar(ty) == ty.t \in {"Boolean", "Integer", "Number", "Enum"}
ScalarFieldsOnly(ty) ==
    /\ ty.t = "Object" /\ ty.fields # <<>>
    /\ \A i \in 1..Len(ty.fields) : IsScalar(ty.fields[i].ty)

\* C9: a generated named type whose fields are only Boolean, Integer, Number
\* or Enum is never in the borrows set, whatever the order of the domains,
\* methods, type definitions and fields.
C9_ScalarsNeverBorrow ==
    Analyzed =>
        \A td \in SchemaTypeDefs :
            ScalarFieldsOnly(DefOf(td).ty) => IdentOf(td) \notin uses_lifetime_set

\* The paths to named types inside the type expression of a field.
RECURSIVE PathsIn(_)
PathsIn(expr) ==
    CASE expr.e = "path" -> {expr}
      [] expr.e \in {"Vec", "array"} -> PathsIn(expr.item)
      [] OTHER -> {}
FieldPaths(type_def) ==
    UNION {PathsIn(type_def.fields[i].ty) : i \in 1..Len(type_def.fields)}
EmittedStructs == {n \in 1..Len(emitted) : emitted[n].decl.d = "struct"}

\* C10: a field that references its own enclosing named type adds no edge
\* to the reachability graph and is emitted boxed, and a reference to any
\* other named type is emitted unboxed.
C10_SelfReferenceBoxed ==
    /\ \A td \in SchemaTypeDefs : <<IdentOf(td), IdentOf(td)>> \notin reference_graph
    /\ \A n \in EmittedStructs :
          \A p \in FieldPaths(emitted[n].decl) :
              p.boxed <=>
                  (p.ident = fully_qualified_ident(emitted[n].module, emitted[n].decl.ident))

\* The references of the schema that name no type definition of the domain
\* they resolve to, each with the index of the referring domain.
UnresolvedReferences ==
    {r \in UNION ({{[d |-> td.d, leaf |-> leaf] : leaf \in LeavesOf(DefOf(td).ty)} :
                      td \in SchemaTypeDefs}
                  \cup {{[d |-> sm.d, leaf |-> leaf] : leaf \in MethodLeaves(sm.m)} :
                          sm \in SchemaMethods}) :
        r.leaf.t = "Reference" /\ Denotes(r.d, r.leaf.target) = {}}

\* C20: a schema with a reference to a name that is absent from the domain
\* it resolves to is rejected at load: the compiler aborts and nothing is
\* emitted.
C20_UnresolvedRejected ==
    UnresolvedReferences # {} => genpc # "done" /\ emitted = <<>>

\* The emitted declarations that declare a named type.
TypeDeclarations ==
    {n \in 1..Len(emitted) : emitted[n].decl.d \in {"enum", "struct", "unit_struct", "type"}}

\* C27: within one domain, two distinct generated named types (type
\* definitions, per-method request and response types, and types
\* synthesised from an enclosing name and a field name) never receive the
\* same identifier.
C27_IdentifiersDistinct ==
    \A i, j \in TypeDeclarations :
        (i # j /\ emitted[i].module = emitted[j].module) =>
            emitted[i].decl.ident # emitted[j].decl.ident

\* The declarations emitted for type definitions of the schema: those under
\* a type definition's own identifier, in its module.
TypeDefDeclarations ==
    {n \in TypeDeclarations :
        fully_qualified_ident(emitted[n].module, emitted[n].decl.ident)
            \in {IdentOf(td) : td \in SchemaTypeDefs}}
\* Whether a declaration is emitted with the lifetime parameter; an enum and
\* a unit struct never are.
DeclaresLifetime(type_def) ==
    type_def.d \in {"struct", "type"} /\ type_def.lifetime

\* C28: for every named type definition, the emitter gives the declaration
\* a lifetime parameter (decided locally from the type's own fields) exactly
\* when the analyzer's borrows set contains that type, so the declaration
\* and every site that references the type agree on whether it borrows.
C28_DeclarationAgreesWithBorrows ==
    \A n \in TypeDefDeclarations :
        DeclaresLifetime(emitted[n].decl) <=>
            (fully_qualified_ident(emitted[n].module, emitted[n].decl.ident)
                \in uses_lifetime_set)

(***************************************************************************)
(* Dispatch: properties                                                    *)
(***************************************************************************)
\* The enum was accepted by the macro and a call has been made on it.
EnumCalled == decl.body = "enum" /\ derived # Idle /\ derived.k = "Ok" /\ outcome # Idle
MethodCalled == decl.body = "method" /\ outcome # Idle

IsTyped(variant) == variant.fields \in {0, 1}
IsWildcard(variant) == variant.fields = 2

\* The match key of a typed variant: its name annotation, else the protocol
\* name constant of its field's type.
Annotations(variant) ==
    {i \in 1..Len(variant.attrs) :
        variant.attrs[i].ident = "cdp" /\ variant.attrs[i].form = "str"}
MatchKey(variant) ==
    IF Annotations(variant) # {}
    THEN variant.attrs[CHOOSE i \in Annotations(variant) : TRUE].text
    ELSE variant.ty.name_const.v
\* The type a typed variant's parameters are deserialized into.
ParamsType(variant) == IF variant.fields = 0 THEN TyEmpty ELSE variant.ty

TypedMatches(name) ==
    {i \in 1..Len(decl.variants) :
        IsTyped(decl.variants[i]) /\ MatchKey(decl.variants[i]) = name}
Wildcards == {i \in 1..Len(decl.variants) : IsWildcard(decl.variants[i])}
Earliest(S) == CHOOSE i \in S : \A j \in S : i <= j

\* C1: when the method name equals the match key of at least one typed
\* variant, dispatch selects the earliest-declared such variant and never
\* the wildcard, whatever the parameters are.
C1_FirstMatchWins ==
    (EnumCalled /\ TypedMatches(callName) # {}) =>
        /\ outcome.k = "Ok"
        /\ outcome.variant = Earliest(TypedMatches(callName))
        /\ outcome.variant \notin Wildcards

\* Two typed variants share the dispatched key, a wildcard follows them, and
\* the first of the two was selected.
C1_Witness ==
    /\ EnumCalled
    /\ Cardinality(TypedMatches(callName)) = 2
    /\ Wildcards # {}
    /\ outcome.k = "Ok" /\ outcome.variant = 1
    /\ callParams = JObj(Map1("url", JStr("u")))

\* C2: when the name matches no variant and the enum has no wildcard,
\* dispatch hands the original parameters back unconsumed as the "not
\* recognized" outcome without attempting any deserialization; a generated
\* request type does the same for every name other than its qualified
\* method name.
C2_NotRecognized ==
    /\ (EnumCalled /\ TypedMatches(callName) = {} /\ Wildcards = {}) =>
          (outcome = NotRecognized(callParams) /\ deAttempts = 0)
    /\ (MethodCalled /\ callName # decl.method_qualified) =>
          (outcome = NotRecognized(callParams) /\ deAttempts = 0)

\* An enum without wildcard has been asked for a name it does not list.
C2_Witness ==
    /\ EnumCalled /\ Wildcards = {} /\ Len(decl.variants) = 2
    /\ callName = "Y.z"
    /\ outcome = NotRecognized(JObj(Map1("url", JStr("u"))))

\* The raw parameters a wildcard's container of type ty holds for params.
Raw(ty, params) == IF ty.shape = "Map" /\ params.k = "obj" THEN params.v ELSE params

\* C3 as stated: with a wildcard and a name that equals no typed variant's
\* match key, dispatch always succeeds with the wildcard, whose value is
\* the dispatched name and the raw parameters.
C3_WildcardAlwaysSucceeds ==
    (EnumCalled /\ TypedMatches(callName) = {} /\ Wildcards # {}) =>
        LET w == Earliest(Wildcards)
        IN outcome = Selected(w, DeOk([name |-> callName,
                                       params |-> Raw(decl.variants[w].ty, callParams)]))

\* Whether params can be held by a wildcard container of type ty.
Holds(ty, params) ==
    /\ params # Malformed
    /\ ty.shape = "Map" => params.k = "obj"

\* C3 amended: with a wildcard and a name that equals no typed variant's
\* match key, dispatch always selects the wildcard; when the parameters
\* deserialize into the wildcard's parameter container the value is the
\* dispatched name with the raw parameters, every value preserved, and
\* otherwise the outcome is the wildcard's deserialization error.
C3_WildcardSelected ==
    (EnumCalled /\ TypedMatches(callName) = {} /\ Wildcards # {}) =>
        LET w == Earliest(Wildcards)
            ty == decl.variants[w].ty
        IN /\ outcome.k = "Ok" /\ outcome.variant = w
           /\ Holds(ty, callParams) =>
                 outcome.result = DeOk([name |-> callName,
                                        params |-> Raw(ty, callParams)])
           /\ ~Holds(ty, callParams) => outcome.result = DeErr

\* The wildcard has captured an unlisted name with its parameters.
C3_Witness ==
    /\ EnumCalled /\ Len(decl.variants) = 3 /\ Wildcards = {3}
    /\ callName = "Y.z"
    /\ outcome = Selected(3, DeOk([name |-> "Y.z",
                                   params |-> JObj(Map1("url", JStr("u")))]))

\* C4: once the name has selected a typed variant, a failure to deserialize
\* its parameters is that variant's own deserialization error: it is never
\* "not recognized" and never falls through to a later variant or to the
\* wildcard.  The same holds for a generated request type.
C4_OwnError ==
    /\ (EnumCalled /\ TypedMatches(callName) # {}) =>
          LET i == Earliest(TypedMatches(callName))
          IN Deserialize(ParamsType(decl.variants[i]), callParams).k = "err" =>
                outcome = Selected(i, DeErr)
    /\ (MethodCalled /\ callName = decl.method_qualified) =>
          (Deserialize(decl.ty, callParams).k = "err" => outcome = Selected(1, DeErr))

\* A typed variant followed by a wildcard was selected by name and its
\* parameters lacked the required member; the wildcard could have held them.
C4_Witness ==
    /\ EnumCalled /\ Wildcards # {}
    /\ TypedMatches(callName) = {1}
    /\ decl.variants[1].ty = TyNavigate
    /\ callParams = JObj(EmptyMap)
    /\ outcome = Selected(1, DeErr)

(***************************************************************************)
(* The derive macro: properties                                            *)
(***************************************************************************)
EnumDeclared == decl.body = "enum"
\* The macro has not produced an impl, and so no call was ever dispatched.
Rejected == (derived = Idle \/ derived.k = "Err") /\ outcome = Idle
Expanded == derived # Idle

VariantAfterWildcard ==
    \E i \in 1..Len(decl.variants) : IsWildcard(decl.variants[i]) /\ i < Len(decl.variants)

\* C11: an enum in which any variant is declared after a 2-field (wildcard)
\* variant is rejected when it is declared, so an accepted enum has at most
\* one wildcard and that wildcard is its last variant.
C11_WildcardLast ==
    EnumDeclared =>
        /\ VariantAfterWildcard => Rejected
        /\ (Expanded /\ derived.k = "Ok") =>
              /\ Cardinality(Wildcards) <= 1
              /\ \A i \in Wildcards : i = Len(decl.variants)

\* A wildcard followed by a second wildcard was expanded and refused for
\* the position of the first.
C11_Witness ==
    /\ EnumDeclared /\ Expanded
    /\ Len(decl.variants) = 2
    /\ IsWildcard(decl.variants[1]) /\ IsWildcard(decl.variants[2])
    /\ derived = DeriveErr("any wildcard variant (with 2 fields) must come last")

BadArity ==
    \E i \in 1..Len(decl.variants) : decl.variants[i].fields \notin {0, 1, 2}

\* C12: an enum containing a variant whose field count is not 0, 1 or 2 is
\* rejected when it is declared, before any message can be dispatched.
C12_ArityRejected == (EnumDeclared /\ BadArity) => Rejected

\* Two well-formed variants followed by a 3-field variant: expansion stopped
\* at the third with the arity error.
C12_Witness ==
    /\ EnumDeclared /\ Expanded
    /\ Len(decl.variants) = 3
    /\ decl.variants[3].fields = 3
    /\ derived = DeriveErr("expected 0, 1, or 2 fields")

\* One variant carries two name annotations.
TwoAnnotations ==
    \E i \in 1..Len(decl.variants) : Cardinality(Annotations(decl.variants[i])) >= 2
\* Two typed variants carry the same name annotation.
SameNameTwice ==
    \E i, j \in 1..Len(decl.variants) :
        /\ i < j
        /\ IsTyped(decl.variants[i]) /\ IsTyped(decl.variants[j])
        /\ Annotations(decl.variants[i]) # {} /\ Annotations(decl.variants[j]) # {}
        /\ MatchKey(decl.variants[i]) = MatchKey(decl.variants[j])

\* C13 as stated: an enum with a duplicate name annotation, whether one
\* variant carries two annotations or two variants carry the same name, is
\* rejected when it is declared and never reaches run time.
C13_DuplicateNameRejected ==
    (EnumDeclared /\ (TwoAnnotations \/ SameNameTwice)) => Rejected

\* Each variant taken alone is one the macro accepts, and any wildcard is last.
VariantsWellFormed ==
    /\ ~VariantAfterWildcard /\ ~BadArity /\ ~TwoAnnotations
    /\ \A i \in 1..Len(decl.variants) :
          /\ \A a \in 1..Len(decl.variants[i].attrs) :
                decl.variants[i].attrs[a].ident = "cdp" =>
                    decl.variants[i].attrs[a].form = "str"
          /\ decl.variants[i].fields = 0 => Annotations(decl.variants[i]) # {}

\* C13, amended: an enum in which one variant carries two name annotations
\* is rejected when it is declared; two variants carrying the same name are
\* not a reason for rejection, the enum is accepted whenever each of its
\* variants is well formed.
C13_TwoAnnotationsRejected ==
    EnumDeclared =>
        /\ TwoAnnotations => Rejected
        /\ (Expanded /\ VariantsWellFormed) => derived.k = "Ok"

\* A single variant with two name annotations was expanded and refused for
\* them.
C13_Witness ==
    /\ EnumDeclared /\ Expanded
    /\ Len(decl.variants) = 1 /\ TwoAnnotations
    /\ derived = DeriveErr("multiple cdp attributes")

(***************************************************************************)
(* Message envelope: properties                                            *)
(***************************************************************************)
\* The four checks of the parse algorithm, stated on the payload itself.
IsValidJson(p) == p # Malformed
IsTopLevelObject(p) == IsValidJson(p) /\ p.k = "obj"
\* The wire format's id is a non-negative integer.
HasIntegerId(p) ==
    IsTopLevelObject(p) /\ "id" \in DOMAIN p.v /\ p.v["id"].k = "uint"
HasStringMethod(p) ==
    IsTopLevelObject(p) /\ "method" \in DOMAIN p.v /\ p.v["method"].k = "str"

Failed(kind, message) ==
    parsed.k = "Err" /\ parsed.error = [kind |-> kind, message |-> message]

\* C5: parse applies the checks valid JSON, top-level object, integer id,
\* string method in that order and fails with the error of the first check
\* that does not hold: ParseError, then InvalidRequest (must be an object),
\* InvalidRequest (must have id), InvalidRequest (must have method).
C5_CheckOrder ==
    parsed # Idle =>
        /\ ~IsValidJson(payload) =>
               Failed("ParseError", "Message must be a valid JSON")
        /\ IsValidJson(payload) /\ ~IsTopLevelObject(payload) =>
               Failed("InvalidRequest", "Message must be an object")
        /\ IsTopLevelObject(payload) /\ ~HasIntegerId(payload) =>
               Failed("InvalidRequest", "Message must have integer 'id' porperty")
        /\ HasIntegerId(payload) /\ ~HasStringMethod(payload) =>
               Failed("InvalidRequest", "Message must have string 'method' porperty")

\* A message that fails both the id check and the method check has been
\* parsed: the id failure is the one reported.
C5_Witness ==
    /\ parsed # Idle
    /\ IsTopLevelObject(payload)
    /\ ~HasIntegerId(payload) /\ ~HasStringMethod(payload)
    /\ "method" \in DOMAIN payload.v
    /\ parsed.k = "Err"

\* C6: a parse failure carries the message id exactly when it was
\* determinable: the valid-JSON, top-level-object and integer-id failures
\* carry no id, the string-method failure carries the id of the message.
C6_IdWhenDeterminable ==
    (parsed # Idle /\ parsed.k = "Err") =>
        IF HasIntegerId(payload)
        THEN parsed.id = Some(payload.v["id"].v)
        ELSE parsed.id = None

\* A message with id 1 and a non-string method has been rejected.
C6_Witness ==
    /\ parsed # Idle /\ parsed.k = "Err"
    /\ HasIntegerId(payload) /\ payload.v["id"].v = 1
    /\ "method" \in DOMAIN payload.v
    /\ parsed.id = Some(1)

\* C7: a message that passes the id and method checks always parses; its
\* params are the message's params object unchanged when that member is
\* present and an object, and the empty object when it is missing or of any
\* other JSON type.
C7_ParamsDefault ==
    (parsed # Idle /\ HasIntegerId(payload) /\ HasStringMethod(payload)) =>
        /\ parsed.k = "Ok"
        /\ parsed.id = payload.v["id"].v
        /\ parsed.command_name = payload.v["method"].v
        /\ parsed.command_params =
              IF "params" \in DOMAIN payload.v /\ payload.v["params"].k = "obj"
              THEN payload.v["params"].v
              ELSE EmptyMap

\* A message whose params member is a number has parsed to empty params.
C7_Witness ==
    /\ parsed # Idle /\ parsed.k = "Ok"
    /\ "params" \in DOMAIN payload.v /\ payload.v["params"] = JUint(2)
    /\ parsed.command_params = EmptyMap

GivenParams == IF "params" \in DOMAIN payload.v THEN payload.v["params"] ELSE JNull
KnownCommands == {"Page.enable", "Page.navigate"}

HasIdMember == payload.k = "obj" /\ "id" \in DOMAIN payload.v
IdMember == payload.v["id"]

\* C30: an id member that is not a non-negative integer (a negative number,
\* a fractional number, a string or any other JSON type) is treated like a
\* missing id: parsing fails with InvalidRequest (must have id) and reports
\* no id.
C30_BadIdAsMissing ==
    (parsed # Idle /\ HasIdMember /\ IdMember.k # "uint") =>
        parsed = ParseErr(must_have_id, None)

\* {"id": -1, "method": "Page.enable"} was parsed and rejected for its id.
C30_Witness ==
    /\ payload = JObj([id |-> JNint(0 - 1), method |-> JStr("Page.enable")])
    /\ parsed = ParseErr(must_have_id, None)

(***************************************************************************)
(* Error kinds: properties                                                 *)
(***************************************************************************)
RoundTripDone == kindConv.back # None

\* The code the wire format assigns to each named kind.
CodeOf(name) ==
    CASE name = "ParseError" -> 0 - 32700
      [] name = "InvalidRequest" -> 0 - 32600
      [] name = "MethodNotFound" -> 0 - 32601
      [] name = "InvalidParams" -> 0 - 32602
      [] name = "InternalError" -> 0 - 32603
      [] name = "ServerError" -> 0 - 32000

\* C14: converting one of the six named kinds to its integer code gives the
\* code listed for it and converting back gives the same kind; converting
\* any other integer to a kind and back gives the same integer.
C14_KindCodeRoundTrip ==
    /\ (kindConv.mid # None /\ kindConv.src \in {AKind(kind) : kind \in NamedKinds}) =>
          kindConv.mid.v = ACode(CodeOf(kindConv.src.v.k))
    /\ (RoundTripDone /\ kindConv.src \in {AKind(kind) : kind \in NamedKinds}) =>
          kindConv.back.v = kindConv.src
    /\ (RoundTripDone /\ kindConv.src.k = "code" /\ kindConv.src.v \notin NamedCodes) =>
          kindConv.back.v = kindConv.src

\* The code 1, which names no kind, went through Other(1) and came back.
C14_Witness ==
    /\ RoundTripDone
    /\ kindConv.src = ACode(1)
    /\ kindConv.mid.v = AKind(Other(1))
    /\ kindConv.back.v = ACode(1)

\* The integer code of a kind: the listed code of a named kind, the carried
\* code of Other.
CodeOfKind(kind) == IF kind.k = "Other" THEN kind.v ELSE CodeOf(kind.k)

\* C29: two error kinds compare equal exactly when their integer codes are
\* equal, so Other(c) for a named code c equals the named kind, and
\* converting any kind to its code and back yields a kind equal to the
\* original.
C29_EqualByCode ==
    kindConv.eq # None =>
        /\ kindConv.eq.v.other <=>
              (CodeOfKind(kindConv.src.v) = CodeOfKind(kindConv.other.v))
        /\ kindConv.eq.v.back

\* Other(-32700) was compared with ParseError and found equal, and came back
\* from its code as ParseError, which it also equals.
C29_Witness ==
    /\ kindConv.eq # None
    /\ kindConv.src = AKind(Other(0 - 32700))
    /\ kindConv.other = Some(Kind("ParseError"))
    /\ kindConv.back = Some(AKind(Kind("ParseError")))
    /\ kindConv.eq.v = [other |-> TRUE, back |-> TRUE]

(***************************************************************************)
(* Generated enums: properties                                             *)
(***************************************************************************)
Declared(s) == \E i \in 1..Len(enumDef.values) : enumDef.values[i] = s

\* C15: for every generated enum and every string of its declared value
\* set, parsing the string succeeds and formatting the parsed variant gives
\* exactly that string.
C15_ParseFormatRoundTrip ==
    (enumCall # Idle /\ Declared(enumCall.s)) =>
        /\ enumCall.parsed.k = "Ok"
        /\ enumCall.shown # None => enumCall.shown.v = enumCall.s

\* The second value of a three-valued enum was parsed and formatted back.
C15_Witness ==
    /\ enumCall # Idle
    /\ enumDef.values = <<V_jpeg, V_fooBar, V_png>>
    /\ enumCall.s = V_fooBar
    /\ enumCall.shown = Some(V_fooBar)

\* C16: parsing a string outside the declared value set fails with the
\* structured error whose expected field is the full declared value set and
\* whose actual field is the input.
C16_ParseEnumError ==
    (enumCall # Idle /\ ~Declared(enumCall.s)) =>
        enumCall.parsed = ParseEnumError(enumDef.values, enumCall.s)

\* "Jpeg" was parsed by an enum declaring "jpeg" and "png".
C16_Witness ==
    /\ enumCall # Idle
    /\ enumDef.values = <<V_jpeg, V_png>>
    /\ enumCall.s = V_Jpeg
    /\ enumCall.parsed = ParseEnumError(<<V_jpeg, V_png>>, V_Jpeg)

(***************************************************************************)
(* Deprecation metadata: properties                                        *)
(***************************************************************************)
Levels == {"domain", "item", "field"}
StatusOf(level) == deprStatus[level]
Computed(level) == deprStatus # Idle /\ deprStatus[level] # Idle
Flagged(level) == deprNodes[level].deprecated
\* The status a node has from its own flag and description alone.
OwnStatus(level) ==
    DeprecationStatus_new(deprNodes[level].deprecated, deprNodes[level].description)
\* The text extracted from the node's own description, if any.
OwnText(level) == warning(OwnStatus(level))

\* C17, as stated: a node whose own deprecated flag is false has the status
\* NotDeprecated, even when its domain or another ancestor is deprecated.
C17_UnflaggedNotDeprecated ==
    \A level \in Levels :
        Computed(level) /\ ~Flagged(level) => StatusOf(level) = NotDeprecated

\* C17, amended: a domain or a field whose own flag is false is
\* NotDeprecated; a type definition or method whose own flag is false is
\* NotDeprecated exactly when its domain is, is deprecated without text in
\* a deprecated domain that has no text, and carries the domain's text as
\* its parent's in a deprecated domain that has one.
C17_UnflaggedFollowsDomain ==
    /\ \A level \in {"domain", "field"} :
          Computed(level) /\ ~Flagged(level) => StatusOf(level) = NotDeprecated
    /\ Computed("item") /\ ~Flagged("item") =>
          StatusOf("item") =
              IF ~Flagged("domain") THEN NotDeprecated
              ELSE IF OwnText("domain") = None THEN Deprecated
              ELSE DeprecatedWithWarningFromParent(OwnText("domain").v)

C17_Witness ==
    /\ Computed("item") /\ ~Flagged("item") /\ Flagged("domain")
    /\ deprNodes.domain.description = Some(<<T_prefix, T_use, T_x>>)
    /\ StatusOf("item") = DeprecatedWithWarningFromParent(<<T_use, T_x>>)

\* A deprecated node from whose own description no text is extracted.
NoOwnText(level) == Flagged(level) /\ OwnText(level) = None
\* The ancestors of a node, nearest first.
Ancestors(level) ==
    CASE level = "domain" -> <<>>
      [] level = "item" -> <<"domain">>
      [] level = "field" -> <<"item", "domain">>
\* The extracted text of the nearest deprecated ancestor that has one.
RECURSIVE NearestText(_)
NearestText(chain) ==
    IF chain = <<>> THEN None
    ELSE IF Flagged(Head(chain)) /\ OwnText(Head(chain)) # None
         THEN OwnText(Head(chain))
         ELSE NearestText(Tail(chain))

\* C18, as stated: a deprecated node with no text of its own takes the text
\* of its nearest deprecated ancestor along domain, type or method, field,
\* and is deprecated without text when no ancestor has text.
C18_InheritsNearestAncestor ==
    \A level \in Levels :
        Computed(level) /\ NoOwnText(level) =>
            /\ is_deprecated(StatusOf(level))
            /\ warning(StatusOf(level)) = NearestText(Ancestors(level))

\* C18, amended: a deprecated type definition or method with no text of its
\* own takes the text of its domain when the domain is deprecated with a
\* text, and is deprecated without text otherwise; a deprecated domain or
\* field with no text of its own is deprecated without text, whatever the
\* type, method or domain around the field.
C18_ItemInheritsDomainOnly ==
    /\ \A level \in {"domain", "field"} :
          Computed(level) /\ NoOwnText(level) => StatusOf(level) = Deprecated
    /\ Computed("item") /\ NoOwnText("item") =>
          StatusOf("item") =
              IF Flagged("domain") /\ OwnText("domain") # None
              THEN DeprecatedWithWarningFromParent(OwnText("domain").v)
              ELSE Deprecated

C18_Witness ==
    /\ Computed("field") /\ NoOwnText("field") /\ NoOwnText("item")
    /\ deprNodes.item.description = Some(<<T_sentence>>)
    /\ deprNodes.field.description = Some(<<T_use, T_x>>)
    /\ StatusOf("domain") = DeprecatedWithWarning(<<T_x, T_mention, T_backslash, T_hazard, T_use, T_x>>)
    /\ StatusOf("item") = DeprecatedWithWarningFromParent(StatusOf("domain").v)
    /\ StatusOf("field") = Deprecated

\* A deprecated node whose own description yields a warning text.
YieldsText(level) == Flagged(level) /\ OwnText(level) # None
\* The description without a leading "Deprecated, ".
WithoutLeadingPrefix(desc) ==
    IF Len(desc) >= 1 /\ desc[1] = T_prefix THEN SubSeq(desc, 2, Len(desc)) ELSE desc
\* The text with a backslash put before every markdown hazard.
RECURSIVE Backslashed(_)
Backslashed(text) ==
    IF text = <<>> THEN <<>>
    ELSE IF Head(text) = T_hazard
         THEN <<T_backslash, T_hazard>> \o Backslashed(Tail(text))
         ELSE <<Head(text)>> \o Backslashed(Tail(text))

\* C19, as stated: a deprecated node whose description yields a warning
\* text has exactly that description as its text, verbatim apart from the
\* removal of a leading "Deprecated, ", whatever its ancestors are.
C19_OwnTextVerbatim ==
    \A level \in Levels :
        Computed(level) /\ YieldsText(level) =>
            warning(StatusOf(level)) =
                Some(WithoutLeadingPrefix(deprNodes[level].description.v))

\* C19, amended: such a node has as its own text its description without a
\* leading "Deprecated, " and with a backslash before each of the
\* characters * [ ] ( ), whatever its ancestors are; the text is the
\* description verbatim apart from the prefix exactly when the description
\* has none of these characters.
C19_OwnTextEscaped ==
    \A level \in Levels :
        Computed(level) /\ YieldsText(level) =>
            StatusOf(level) = DeprecatedWithWarning(
                Backslashed(WithoutLeadingPrefix(deprNodes[level].description.v)))

C19_Witness ==
    /\ Computed("item") /\ YieldsText("item")
    /\ deprNodes.item.description = Some(<<T_prefix, T_use, T_x>>)
    /\ StatusOf("domain") = DeprecatedWithWarning(<<T_x, T_mention, T_backslash, T_hazard, T_use, T_x>>)
    /\ StatusOf("item") = DeprecatedWithWarning(<<T_use, T_x>>)

(***************************************************************************)
(* Outgoing messages: properties                                           *)
(***************************************************************************)
Serialised == outCall # Idle /\ outCall.call # None /\ wire # Idle
Members(value) == DOMAIN value.v
\* What is being sent: a success result, a failure result, an event or a
\* bare failure.
Sent ==
    LET call == outCall.call
    IN CASE call.k = "serialize" /\ call.v.k = "Result" ->
               IF call.v.v.result.k = "Ok" THEN "success" ELSE "failure"
         [] call.k = "serialize" /\ call.v.k = "Event" -> "event"
         [] call.k = "serialize" /\ call.v.k = "Error" -> "bare"
         [] call.k = "serialize_result" ->
               IF call.v.result.k = "Ok" THEN "success" ELSE "failure"
         [] call.k = "serialize_response" -> "success"
         [] call.k = "serialize_error" ->
               IF call.v.maybe_id = None THEN "bare" ELSE "failure"
         [] call.k = "serialize_event" -> "event"

\* C21: every serialised outgoing message has exactly one of four shapes: a
\* success result with the members id and result, a failure result with id
\* and error, an event with method and params, or a bare failure with the
\* single member error and no id.
C21_FourShapes ==
    Serialised =>
        /\ wire.k = "obj"
        /\ Members(wire) = CASE Sent = "success" -> {"id", "result"}
                             [] Sent = "failure" -> {"id", "error"}
                             [] Sent = "event" -> {"method", "params"}
                             [] Sent = "bare" -> {"error"}
        /\ "id" \in Members(wire) => wire.v["id"].k = "uint"
        /\ "result" \in Members(wire) => wire.v["result"].k = "obj"
        /\ "error" \in Members(wire) =>
              {"code", "message"} \subseteq Members(wire.v["error"])
        /\ "method" \in Members(wire) => wire.v["method"].k = "str"
        /\ "params" \in Members(wire) => wire.v["params"].k = "obj"

C21_Witness ==
    /\ Serialised /\ Sent = "failure" /\ outCall.call.k = "serialize_result"
    /\ wire = JObj([id |-> JUint(2),
                    error |-> JObj([code |-> JNint(0 - 32602),
                                    message |-> JStr("Invalid parameters"),
                                    data |-> JStr("x")])])

\* The wire is an object with an id the protocol allows and an error
\* object, and no result.
HasIdAndError ==
    /\ wire # Idle /\ wire.k = "obj"
    /\ "id" \in Members(wire) /\ as_u64(wire.v["id"]) # None
    /\ "error" \in Members(wire) /\ CdpError_deserialize(wire.v["error"]) # None
    /\ "result" \notin Members(wire)

\* C25: deserialising an outgoing message that has both an id member and an
\* error member yields a command-failure result carrying that id and that
\* error, never a bare error that drops the id.
C25_FailureKeepsId ==
    (received # Idle /\ HasIdAndError) =>
        received = [k |-> "Ok",
                    v |-> OutResult(wire.v["id"].v,
                                    RErr(CdpError_deserialize(wire.v["error"]).v))]

\* The same for the two types whose untagged enum declares CommandFailure
\* before GeneralFailure.
FailureKeepsIdCdpJson ==
    (received # Idle /\ HasIdAndError /\ outCall.outImpl \in {"cdp", "json"}) =>
        received = [k |-> "Ok",
                    v |-> OutResult(wire.v["id"].v,
                                    RErr(CdpError_deserialize(wire.v["error"]).v))]

(***************************************************************************)
(* Concurrent dispatch: properties                                         *)
(***************************************************************************)
\* The calls that have returned: each thread's last one and the kept one.
ReturnedCalls ==
    {threads[t].v : t \in {u \in Threads : threads[u].k = "done"}}
    \cup (IF callLog # None THEN {callLog.v} ELSE {})

BothParse == loader.browser # Malformed /\ loader.js # Malformed
VersionsDiffer == BothParse /\ loader.browser.version # loader.js.version
LoadEnded == loader.pc \in {"panic", "done"}

\* C24: loading two schema files whose version fields differ fails, and no
\* code is generated from either file.
C24_VersionMismatchFails ==
    (loader # Idle /\ VersionsDiffer) =>
        /\ loader.written = <<>>
        /\ loader.pc \in {"read_browser", "read_js", "compare", "panic"}
        /\ LoadEnded => loader.pc = "panic"

C24_Witness ==
    /\ loader # Idle /\ VersionsDiffer /\ loader.pc = "panic"
    /\ loader.browser.version = Version("1", "2")
    /\ loader.js.version = Version("1", "3")
    /\ loader.js_protocol # None
    /\ loader.written = <<>>

====
